---- MODULE Spec2Model ----
(***************************************************************************)
(* Generational object pool (sv::Pool, lib/sv/include/sv/object_pool.hpp)  *)
(* with its two freelist policies, modelled operation by operation.        *)
(*                                                                         *)
(* Representation of machine integers.  A std::uint32_t is held as the     *)
(* signed integer with the same 32-bit pattern, so 0xFFFFFFFF is -1,       *)
(* 0xFFFFFFFE is -2 and so on; Inc32 is the wrapping increment and ULess   *)
(* the unsigned comparison.  The 64-bit head word of the lock-free         *)
(* freelist is held as the pair of its high and low 32-bit words.          *)
(* Vectors are sequences; the code's index i is position i + 1.            *)
(***************************************************************************)
EXTENDS Integers, Sequences, FiniteSets, TLC

\* ------------------------------------------------------------------ bounds
\* most slots the pool is allowed to create
MaxSlots == 3
\* most elements the dense array is allowed to hold
MaxDense == 3
\* most generation bumps (retirements by erase or clear) in a run
MaxBumps == 3
\* most objects constructed in the paired pools
MaxMade == 6
\* threads sharing the lock-free freelist
NThreads == 2
\* indices the shared lock-free freelist has room for
NIdx == 3
\* most push/pop calls started on the shared freelist
MaxCalls == 4
\* most submissions made through the staging allocator or the context
MaxSubmits == 3
\* most calls that create or destroy textures of a populated context
MaxMutations == 3
\* most mip levels of one image upload, and most levels skipped below the
\* first one uploaded
MaxMipLevels == 3
\* most array layers of one image upload
MaxLayers == 2
\* images of a swapchain
SwapchainImages == 2

\* ------------------------------------------------------- program constants
INT32_MAX == 2147483647
INT32_MIN == -INT32_MAX - 1
\* std::numeric_limits<std::uint32_t>::max(), 0xFFFFFFFF
UINT32_MAX == -1
npos == UINT32_MAX
invalid_generation == 0

\* ------------------------------------------------------- 32-bit arithmetic
Inc32(x) == IF x = INT32_MAX THEN INT32_MIN ELSE x + 1

ULess(a, b) == IF (a < 0) = (b < 0) THEN a < b ELSE b < 0

\* i is a position inside vector s (operator[] is defined there only)
InBounds(s, i) == i >= 0 /\ i < Len(s)

\* ----------------------------------------------------------------- state
VARIABLES
  LockFree,   \* template parameter of Pool: TRUE selects FreelistAtomic
  pool,       \* the Pool object: one field per data member; ub marks an
              \* out-of-bounds access inside the operation being computed
  crashed,    \* the process was terminated by an out-of-bounds access
  ret,        \* the last call made on the pool and what it returned
  issued,     \* handles returned by emplace/insert so far; each with
              \* preClear: clear() ran since it was issued, and wrapped: its
              \* slot's generation counter wrapped around since it was issued
  cleared,    \* clear() has run
  lastIssued, \* per slot index, generation of the last handle issued (0: none)
  live,       \* elements emplaced under a handle that was not erased since
  retired,    \* retire_index calls not yet matched by an acquire, in order
  bumps,      \* generation bumps made by erase and clear since Init
  twin,       \* a vector-freelist pool and a lock-free pool given the same
              \* calls, with what each returned last
  stack,      \* a FreelistAtomic shared by threads: head, next, each
              \* thread's position and locals in push/pop, and the indices
              \* outside the stack
  conc,       \* a lock-free Pool used by two threads: the pool, the thread
              \* inside erase, the thread inside emplace, their locals, and
              \* the element each handle was issued for
  sa,         \* a StagingAllocator with the submissions of its
              \* ImmediateCommands: the data members, the tokens submitted,
              \* completed and observed complete, the position and locals
              \* of the upload in progress, and what the last step did
  up,         \* an image upload of StagingAllocator: its arguments, the
              \* storage size computed, the region acquired, the position
              \* of the copy loop and the copies recorded so far
  rc,         \* a VulkanContext seen from its resource pools: one pool per
              \* handle type, the pre-frame queue, the Holder objects alive,
              \* and the calls of destroy and release made so far
  bl          \* a VulkanContext seen from its bindless table: the texture
              \* pool, the dirty flag, the DescriptorArrays, the Vulkan
              \* layouts and sets created with what the current set holds,
              \* the two deferred queues, the submissions made and
              \* completed, the frame loop's position, and what the last
              \* call did

vars == <<LockFree, pool, crashed, ret, issued, cleared,
          lastIssued, live, retired, bumps, twin, stack, conc, sa, bl,
          up, rc>>

\* the state of one Pool object and the history of the calls made on it
poolVars == <<LockFree, pool, crashed, ret, issued, cleared,
              lastIssued, live, retired, bumps>>

\* everything but the single pool
notPool == <<twin, stack, conc, sa, bl, up, rc>>

Handle(i, g) == [index |-> i, generation |-> g]

\* Handle() = default
DefaultHandle == Handle(0, invalid_generation)

\* an out-of-bounds access happened while computing p
MarkUB(p, inb) == IF inb THEN p ELSE [p EXCEPT !.ub = TRUE]

\* s[i] = x through operator[]: outside the vector the store does not land
\* in the vector's elements
Store(s, i, x) == IF InBounds(s, i) THEN [s EXCEPT ![i + 1] = x] ELSE s

\* s[i] through operator[]: outside the vector the value read is whatever
\* the memory holds, junk
Load(s, i, junk) == IF InBounds(s, i) THEN s[i + 1] ELSE junk

\* ----------------------------------------------------------- bump_generation
bump_generation(g) ==
  LET g1 == Inc32(g)
  IN IF g1 = invalid_generation THEN Inc32(g1) ELSE g1

\* ------------------------------------------------------------ FreelistVector
FreelistVector_push(fl, v) == [fl EXCEPT !.data = Append(@, v)]

FreelistVector_pop(fl) ==
  IF fl.data = <<>>
  THEN [fl |-> fl, v |-> npos]
  ELSE [fl |-> [fl EXCEPT !.data = SubSeq(@, 1, Len(@) - 1)],
        v  |-> fl.data[Len(fl.data)]]

\* ------------------------------------------------------------ FreelistAtomic
\* (tag << 32) | idx, as <<high word, low word>>
pack(t) == <<t.tag, t.idx>>

unpack(v) == [idx |-> v[2], tag |-> v[1]]

ensure_capacity(fl, n) ==
  IF Len(fl.next) < n
  THEN [fl EXCEPT !.next = @ \o [k \in 1..(n - Len(@)) |-> npos]]
  ELSE fl

\* With one thread the compare-exchange loop ends on its first success with
\* head unchanged since the load.  The freelist lives in the pool, so the
\* operators take the pool to record an out-of-bounds next[i].
FreelistAtomic_push(p, i) ==
  LET fl == p.freelist
      t  == unpack(fl.head)
      n  == [idx |-> i, tag |-> Inc32(t.tag)]
  IN MarkUB([p EXCEPT !.freelist.next = Store(fl.next, i, t.idx),
                      !.freelist.head = pack(n)],
            InBounds(fl.next, i))

FreelistAtomic_pop(p, junk) ==
  LET fl == p.freelist
      t  == unpack(fl.head)
  IN IF t.idx = npos
     THEN [p |-> p, v |-> t.idx]
     ELSE LET nxt == Load(fl.next, t.idx, junk)
              n   == [idx |-> nxt, tag |-> Inc32(t.tag)]
          IN [p |-> MarkUB([p EXCEPT !.freelist.head = pack(n)],
                           InBounds(fl.next, t.idx)),
              v |-> t.idx]

\* freelist.push / freelist.pop of Pool, by policy
freelist_push(p, lf, i) ==
  IF lf THEN FreelistAtomic_push(p, i)
  ELSE [p EXCEPT !.freelist = FreelistVector_push(@, i)]

freelist_pop(p, lf, junk) ==
  IF lf THEN FreelistAtomic_pop(p, junk)
  ELSE LET r == FreelistVector_pop(p.freelist)
       IN [p |-> [p EXCEPT !.freelist = r.fl], v |-> r.v]

\* --------------------------------------------------------------------- Pool
size(p) == Len(p.dense_storage)

load_generation(p, idx, junk) == Load(p.generations, idx, junk)

store_generation(p, idx, v) ==
  MarkUB([p EXCEPT !.generations = Store(@, idx, v)],
         InBounds(p.generations, idx))

\* is_valid without the comparison of generations
is_valid_nogen(p, h) ==
  LET i == h.index
  IN /\ InBounds(p.generations, i)
     /\ i # npos
     /\ p.sparse_to_dense[i + 1] # npos
     /\ p.generations[i + 1] # invalid_generation

is_valid(p, h) ==
  LET i == h.index
  IN /\ InBounds(p.generations, i)
     /\ i # npos
     /\ p.sparse_to_dense[i + 1] # npos
     /\ p.generations[i + 1] # invalid_generation
     /\ p.generations[i + 1] = h.generation

Null == 0

\* an element read from outside dense_storage
JunkElem == -1

\* get(handle_type): the element pointed to, Null for nullptr
get(p, h) ==
  IF ~is_valid(p, h) THEN Null
  ELSE Load(p.dense_storage, p.sparse_to_dense[h.index + 1], JunkElem)

acquire_index(p, lf, junk) ==
  LET p0 == IF lf
            THEN [p EXCEPT !.freelist = ensure_capacity(@, Len(p.generations))]
            ELSE p
      r  == freelist_pop(p0, lf, junk)
  IN IF r.v # npos
     THEN [p |-> r.p, idx |-> r.v]
     ELSE [p |-> [r.p EXCEPT !.generations = Append(@, invalid_generation),
                             !.sparse_to_dense = Append(@, npos),
                             !.dense_to_sparse = Append(@, npos)],
           idx |-> Len(p.generations)]

\* ensure_live_generation that leaves generation 0 in place
ensure_live_generation_none(p, idx, junk) == p

ensure_live_generation(p, idx, junk) ==
  LET g == load_generation(p, idx, junk)
  IN IF g = invalid_generation
     THEN store_generation(MarkUB(p, InBounds(p.generations, idx)), idx,
                           bump_generation(g))
     ELSE MarkUB(p, InBounds(p.generations, idx))

\* retire_index that only returns the index to the freelist
retire_index_pushonly(p, lf, idx, junk) == freelist_push(p, lf, idx)

retire_index(p, lf, idx, junk) ==
  LET p1 == store_generation(p, idx,
                             bump_generation(load_generation(p, idx, junk)))
      p2 == MarkUB([p1 EXCEPT !.sparse_to_dense = Store(@, idx, npos)],
                   InBounds(p1.sparse_to_dense, idx))
  IN freelist_push(p2, lf, idx)

emplace(p, lf, value, junk) ==
  LET a       == acquire_index(p, lf, junk)
      idx     == a.idx
      dense_i == Len(a.p.dense_storage)
      p1      == [a.p EXCEPT !.dense_storage = Append(@, value)]
      p2      == MarkUB([p1 EXCEPT !.dense_to_sparse = Store(@, dense_i, idx)],
                        InBounds(p1.dense_to_sparse, dense_i))
      p3      == MarkUB([p2 EXCEPT !.sparse_to_dense = Store(@, idx, dense_i)],
                        InBounds(p2.sparse_to_dense, idx))
      p4      == ensure_live_generation(p3, idx, junk)
  IN [p |-> p4, h |-> Handle(idx, load_generation(p4, idx, junk))]

insert(p, lf, value, junk) ==
  LET a       == acquire_index(p, lf, junk)
      idx     == a.idx
      dense_i == Len(a.p.dense_storage)
      p1      == [a.p EXCEPT !.dense_storage = Append(@, value)]
      p2      == MarkUB([p1 EXCEPT !.dense_to_sparse = Store(@, dense_i, idx)],
                        InBounds(p1.dense_to_sparse, dense_i))
      p3      == MarkUB([p2 EXCEPT !.sparse_to_dense = Store(@, idx, dense_i)],
                        InBounds(p2.sparse_to_dense, idx))
      p4      == ensure_live_generation(p3, idx, junk)
  IN [p |-> p4, h |-> Handle(idx, load_generation(p4, idx, junk))]

seed_reserved(p, lf, value, junk) ==
  IF p.reserved > 0
  THEN [p |-> MarkUB(p, InBounds(p.generations, 0)),
        h |-> Handle(0, load_generation(p, 0, junk))]
  ELSE LET a   == acquire_index(p, lf, junk)
           idx == a.idx
           p1  == [a.p EXCEPT !.dense_storage = Append(@, value),
                              !.dense_to_sparse = Append(@, idx)]
           \* sparse_to_dense.at(idx) throws outside the vector
           p2  == MarkUB([p1 EXCEPT !.sparse_to_dense = Store(@, idx, 0)],
                         InBounds(p1.sparse_to_dense, idx))
           p3  == ensure_live_generation(p2, idx, junk)
           p4  == [p3 EXCEPT !.reserved = 1]
       IN [p |-> p4, h |-> Handle(idx, load_generation(p4, idx, junk))]

\* std::swap(dense_storage[d], dense_storage[last]); an element outside the
\* vector is junk memory
swap_dense(ds, d, last) ==
  LET ed == Load(ds, d, JunkElem)
      el == Load(ds, last, JunkElem)
  IN Store(Store(ds, d, el), last, ed)

pop_back(s) == IF s = <<>> THEN s ELSE SubSeq(s, 1, Len(s) - 1)

erase(p, lf, h, junk) ==
  IF ~is_valid(p, h) THEN [p |-> p, ok |-> FALSE]
  ELSE
    LET s    == h.index
        d    == p.sparse_to_dense[s + 1]
        \* static_cast<std::uint32_t>(dense_storage.size() - 1)
        last == Len(p.dense_storage) - 1
        p1   == IF d # last
                THEN LET moved_s == Load(p.dense_to_sparse, last, junk)
                         q1 == MarkUB(
                                 [p EXCEPT !.dense_storage =
                                             swap_dense(@, d, last)],
                                 InBounds(p.dense_storage, d)
                                   /\ InBounds(p.dense_storage, last))
                         q2 == MarkUB(
                                 [q1 EXCEPT !.dense_to_sparse =
                                              Store(@, d, moved_s)],
                                 InBounds(q1.dense_to_sparse, last)
                                   /\ InBounds(q1.dense_to_sparse, d))
                     IN MarkUB(
                          [q2 EXCEPT !.sparse_to_dense = Store(@, moved_s, d)],
                          InBounds(q2.sparse_to_dense, moved_s))
                ELSE p
        p2   == MarkUB([p1 EXCEPT !.dense_storage = pop_back(@)],
                       p1.dense_storage # <<>>)
    IN [p |-> retire_index(p2, lf, s, junk), ok |-> TRUE]

RECURSIVE clear_loop(_, _, _)
clear_loop(p, lf, i) ==
  IF i >= Len(p.generations) THEN p
  ELSE LET p1 == store_generation(p, i,
                   bump_generation(load_generation(p, i, npos)))
           p2 == [p1 EXCEPT !.sparse_to_dense = Store(@, i, npos)]
       IN clear_loop(freelist_push(p2, lf, i), lf, i + 1)

\* clear that keeps the generations
RECURSIVE clear_loop_nobump(_, _, _)
clear_loop_nobump(p, lf, i) ==
  IF i >= Len(p.generations) THEN p
  ELSE clear_loop_nobump(
         freelist_push([p EXCEPT !.sparse_to_dense = Store(@, i, npos)],
                       lf, i),
         lf, i + 1)

clear_nobump(p, lf) ==
  clear_loop_nobump([p EXCEPT !.dense_storage = <<>>], lf, 0)

clear(p, lf) == clear_loop([p EXCEPT !.dense_storage = <<>>], lf, 0)

\* the calls fn(i, dense_storage[i]) made by for_each_dense, in order
for_each_dense(p) ==
  [k \in 1..Len(p.dense_storage) |-> <<k - 1, p.dense_storage[k]>>]

\* ------------------------------------------------------------------ inputs
\* values an out-of-bounds read of an index vector can produce: an index
\* of a slot, or a value that is no slot index
JunkVals == (0..(MaxSlots - 1)) \cup {npos}

\* an out-of-bounds read has no single value and may end the process; an
\* operation that stays inside its vectors has one outcome
JunkFor(ub) == IF ub THEN JunkVals ELSE {npos}

CrashFor(ub) == IF ub THEN BOOLEAN ELSE {FALSE}

Dec32(x) == IF x = INT32_MIN THEN INT32_MAX ELSE x - 1

\* handles passed to erase: for every slot the handle of its current
\* generation (live, or erased before); for slot 0 also the handle of the
\* generation before the current one; the default handle; an index one past
\* the slots
HandleDomain ==
  {Handle(i, pool.generations[i + 1]) : i \in 0..(Len(pool.generations) - 1)}
  \cup {Handle(0, Dec32(pool.generations[k])) : k \in {1} \cap DOMAIN pool.generations}
  \cup {DefaultHandle, Handle(Len(pool.generations), 1)}

Range(s) == {s[k] : k \in 1..Len(s)}

\* the object constructed by the next emplace/insert, named by the smallest
\* number naming no object that is stored or accounted live
NewElem ==
  LET used == Range(pool.dense_storage) \cup {l.elem : l \in live}
  IN CHOOSE e \in 1..(Cardinality(used) + 1) : e \notin used

Slots(p) == 0..(Len(p.generations) - 1)

SlotLive(p, i) == InBounds(p.sparse_to_dense, i) /\ p.sparse_to_dense[i + 1] # npos

NoRet == [op |-> "none", h |-> DefaultHandle, ok |-> FALSE, expect |-> 0,
          wasLive |-> FALSE, prev |-> 0, elem |-> Null]

\* ------------------------------------------------------------------- Init
\* Pool's default member initialisers; head{ pack({ max, 0 }) }
FreshPool ==
  [reserved        |-> 0,
   dense_storage   |-> <<>>,
   sparse_to_dense |-> <<>>,
   dense_to_sparse |-> <<>>,
   generations     |-> <<>>,
   freelist        |-> [data |-> <<>>,
                        head |-> pack([idx |-> npos, tag |-> 0]),
                        next |-> <<>>],
   ub              |-> FALSE]

\* generation of slot 0 in the long-running pool below: the last one before
\* the counter wraps
AgedGeneration == UINT32_MAX

\* The pool after  a = emplace(); b = emplace();  followed by
\* AgedGeneration - 1 rounds of  erase(handle of slot 0); emplace()  where
\* the last emplace is left out: slot 0 has been retired AgedGeneration - 1
\* times and is on the freelist, b (the second object made) is the only
\* element.  The lock-free
\* freelist has then seen AgedGeneration - 1 pushes and AgedGeneration - 2
\* pops (tag 2 * 0xFFFFFFFF - 3 = 0xFFFFFFFB mod 2^32).
AgedPool ==
  [reserved        |-> 0,
   dense_storage   |-> <<2>>,
   sparse_to_dense |-> <<npos, 0>>,
   dense_to_sparse |-> <<1, 0>>,
   generations     |-> <<AgedGeneration, 1>>,
   freelist        |-> IF LockFree
                       THEN [data |-> <<>>,
                             head |-> pack([idx |-> 0, tag |-> -5]),
                             next |-> <<npos, npos>>]
                       ELSE [data |-> <<0>>,
                             head |-> pack([idx |-> npos, tag |-> 0]),
                             next |-> <<>>],
   ub              |-> FALSE]

Issued(h) == [h |-> h, preClear |-> FALSE, wrapped |-> FALSE]

\* the generation counter of slot i wrapped around between pools p and q
Wrapped(p, q, i) ==
  /\ InBounds(p.generations, i)
  /\ ULess(q.generations[i + 1], p.generations[i + 1])

\* issued, after the pool went from p to q
AfterRetire(p, q) ==
  {[e EXCEPT !.wrapped = @ \/ Wrapped(p, q, e.h.index)] : e \in issued}

\* a result before any call was made
NoResult == [op |-> "none", h |-> DefaultHandle, ok |-> FALSE]

\* two newly constructed pools, Pool<H, T, false> and Pool<H, T, true>
TwinIdle ==
  [v |-> FreshPool, a |-> FreshPool, rv |-> NoResult, ra |-> NoResult,
   made |-> 0, erased |-> 0, crashed |-> FALSE]

\* threads calling push and pop on one FreelistAtomic
Threads == 1..NThreads

\* indices the freelist was given capacity for
StackIdx == 0..(NIdx - 1)

Idle == [pc |-> "idle", i |-> npos, h |-> <<0, npos>>, nxt |-> npos,
         stale |-> FALSE]

\* a FreelistAtomic after ensure_capacity(NIdx), no thread inside a call
StackIdle ==
  [head  |-> pack([idx |-> npos, tag |-> 0]),
   next  |-> [k \in 1..NIdx |-> npos],
   th    |-> [t \in Threads |-> Idle],
   out   |-> StackIdx,
   calls |-> 0,
   last  |-> [op |-> "none", v |-> npos, wasOut |-> FALSE, stale |-> FALSE]]

\* the object the concurrent emplace constructs
ConcElem == 9

\* a lock-free pool no thread has called yet
ConcIdle ==
  [p |-> FreshPool,
   e |-> [pc |-> "done", h |-> DefaultHandle, d |-> 0, last |-> 0,
          moved_s |-> 0, ok |-> FALSE],
   m |-> [pc |-> "done", idx |-> npos, dense_i |-> 0, h |-> DefaultHandle],
   own |-> {}, crashed |-> FALSE]

\* ------------------------------------------------------ staging allocator
\* (sv::StagingAllocator, lib/sv/src/staging_allocator.cpp.)  Sizes and
\* offsets are in bytes.  The requests drawn in the model stay below 2^31,
\* so a std::uint32_t or VkDeviceSize holding one is the integer itself; the
\* std::size_t of a buffer upload is held as two 32-bit words (see Sz).
MiB == 1048576
staging_buffer_alignment == 16
max_staging_buffer_size == 256 * MiB
\* the member initializer of min_buffer_size, 4 * 2048 * 2048
initial_min_buffer_size == 16 * MiB

Min2(a, b) == IF a < b THEN a ELSE b

Max2(a, b) == IF a > b THEN a ELSE b

\* SubmitHandle(): the token of no submission
NoHandle == 0

\* MemoryRegionDescription
Region(off, len, h) == [offset |-> off, size |-> len, handle |-> h]

\* std::size_t value hi * 2^32 + lo
Sz(hi, lo) == [hi |-> hi, lo |-> lo]

\* nothing was called in the last step
NoCall ==
  [op |-> "none", req |-> 0, ret |-> Region(0, 0, NoHandle), copied |-> 0,
   clash |-> FALSE, reset |-> FALSE, cut |-> FALSE, stale |-> FALSE,
   \* the steps ensure_size took, in order, the submissions not complete
   \* when it released the buffer, and the tasks it ran
   events |-> <<>>, inflight |-> 0, ran |-> <<>>]

\* the allocator constructed on a device whose maxMemoryAllocationSize is
\* dev, in a build with assert compiled out (ndebug) or in;
\* ImmediateCommands has submitted nothing
StagingAllocator(dev, ndebug) ==
  LET max_buffer_size == Min2(dev, max_staging_buffer_size) IN
  [dev |-> dev, ndebug |-> ndebug,
   max_buffer_size |-> max_buffer_size,
   min_buffer_size |-> Min2(initial_min_buffer_size, max_buffer_size),
   staging_buffer |-> 0, staging_buffer_size |-> 0,
   staging_buffer_count |-> 0, regions |-> <<>>,
   submitted |-> 0, done |-> 0, seen |-> {},
   \* context.pre_frame_queue, and the buffers vmaDestroyBuffer was called on
   pre_frame_queue |-> <<>>, destroyed |-> {},
   pc |-> "idle", size |-> Sz(0, 0), stg |-> 0, n |-> 0,
   desc |-> Region(0, 0, NoHandle), crashed |-> FALSE, last |-> NoCall]

\* an allocator nothing was uploaded through
SaIdle == StagingAllocator(1024 * MiB, FALSE)

\* --------------------------------------------------------- bindless table
\* (sv::Bindless<VulkanContext>, lib/sv/include/sv/bindless.hpp, with the
\* members of VulkanContext it works on.)  An image view, a descriptor set
\* layout and a descriptor set are each the number of the object among those
\* of its kind, in the order they were created; VK_NULL_HANDLE is 0.
VK_NULL_HANDLE == 0

\* DescriptorArrays with its default member initialisers
DescriptorArrays ==
  [layout |-> VK_NULL_HANDLE, pool |-> VK_NULL_HANDLE, set |-> VK_NULL_HANDLE,
   sampled_capacity |-> 16, storage_capacity |-> 16]

\* nothing was called on the context in the last step: the call, the dirty
\* flag, pool size and capacity it found, the capacity it computed, the
\* layouts and sets it created, the steps it took in order, the deferred
\* tasks it ran, the handle it was given or returned, and the insertions
\* and erasures made in the pool since the sync before it
NoBlCall ==
  [op |-> "none", dirty |-> FALSE, n |-> 0, before |-> 0, cap |-> 0, since |-> 0,
   layouts |-> 0, sets |-> 0, order |-> <<>>, ran |-> <<>>,
   h |-> DefaultHandle,
   \* the waits for the device and the descriptor updates write_all made,
   \* in order, and the submissions not complete when the call was made
   \* and at the update
   io |-> <<>>, unfinished |-> 0, pending |-> 0]

\* VulkanContext with its default member initialisers, before the body of
\* its constructor has run; no swapchain yet
BlIdle ==
  [textures |-> FreshPool,
   needs_descriptor_update |-> TRUE,
   descriptors |-> DescriptorArrays,
   delete_queue |-> <<>>,
   pre_frame_queue |-> <<>>,
   \* tasks passed to defer_task so far
   deferred |-> 0,
   swapchain_textures |-> <<>>,
   \* Vulkan: the capacity each layout and each set was created with, the
   \* image views created, what bindings 0 and 1 of the current set hold,
   \* and whether a write ran past the end of its arrays
   layouts |-> <<>>, sets |-> <<>>, views |-> 0,
   sampled |-> <<>>, storage |-> <<>>, overrun |-> FALSE,
   \* ImmediateCommands: submissions made and completed
   submitted |-> 0, done |-> 0,
   \* the handles that were live at the last write_all, and the textures a
   \* recorded command buffer indexes the table with
   written |-> {}, recorded |-> {},
   \* insertions and erasures in the pool since the last sync, and calls
   \* made on the populated context that can change the pool
   since |-> 0, calls |-> 0, pc |-> "api",
   last |-> NoBlCall]

\* ----------------------------------------------------------- image upload
\* (StagingAllocator::upload(VulkanTextureND&, const VkRect2D&, ...),
\* lib/sv/src/staging_allocator.cpp.)

VkExtent2D(w, h) == [width |-> w, height |-> h]

\* no image upload was called
UpIdle ==
  [pc |-> "idle",
   extent |-> VkExtent2D(0, 0), image_region |-> VkExtent2D(0, 0),
   base_mip_level |-> 0, mip_level_count |-> 0, num_layers |-> 0,
   format |-> "Invalid",
   storage_size |-> 0, desc |-> Region(0, 0, NoHandle),
   mipLevel |-> 0, l |-> 0, offset |-> 0, copies |-> <<>>]

RcIdle == [pc |-> "idle"]

NotPoolIdle ==
  /\ twin = TwinIdle /\ stack = StackIdle /\ conc = ConcIdle /\ sa = SaIdle
  /\ bl = BlIdle /\ up = UpIdle /\ rc = RcIdle

InitFresh ==
  /\ pool = FreshPool
  /\ issued = {}
  /\ lastIssued = [i \in 0..(MaxSlots - 1) |-> 0]
  /\ live = {}
  /\ retired = <<>>
  /\ ret = NoRet

\* of the handles issued for slot 0 only the first two and the last are kept
InitAged ==
  /\ pool = AgedPool
  /\ issued = {Issued(Handle(0, 1)), Issued(Handle(0, 2)),
               Issued(Handle(0, AgedGeneration - 1)), Issued(Handle(1, 1))}
  /\ lastIssued = [i \in 0..(MaxSlots - 1) |->
                     IF i = 0 THEN AgedGeneration - 1
                     ELSE IF i = 1 THEN 1 ELSE 0]
  /\ live = {[elem |-> 2, h |-> Handle(1, 1)]}
  /\ retired = <<0>>
  /\ ret = [NoRet EXCEPT !.op = "erase", !.h = Handle(0, AgedGeneration - 1),
                         !.ok = TRUE]

Init ==
  /\ LockFree \in BOOLEAN
  /\ crashed = FALSE
  /\ cleared = FALSE
  /\ bumps = 0
  /\ (InitFresh \/ InitAged)
  /\ NotPoolIdle

\* a pool right after construction only
InitNew ==
  /\ LockFree \in BOOLEAN
  /\ crashed = FALSE
  /\ cleared = FALSE
  /\ bumps = 0
  /\ InitFresh
  /\ NotPoolIdle

\* ---------------------------------------------------------------- actions
\* the out-of-bounds access terminates the process
Crash(name) ==
  /\ crashed' = TRUE
  /\ ret' = [NoRet EXCEPT !.op = "crash"]
  /\ UNCHANGED <<LockFree, pool, issued, cleared, lastIssued, live, retired,
                 bumps>>

\* emplace and insert return alike; ret names both "emplace"
Issue(name, r, e) ==
  /\ pool' = [r.p EXCEPT !.ub = FALSE]
  /\ ret' = [op |-> name, h |-> r.h, ok |-> TRUE,
             expect |-> IF retired # <<>> THEN retired[Len(retired)]
                        ELSE Len(pool.generations),
             wasLive |-> SlotLive(pool, r.h.index),
             prev |-> IF r.h.index \in DOMAIN lastIssued
                      THEN lastIssued[r.h.index] ELSE 0,
             elem |-> e]
  /\ issued' = issued \cup {Issued(r.h)}
  /\ lastIssued' = IF r.h.index \in DOMAIN lastIssued
                   THEN [lastIssued EXCEPT ![r.h.index] = r.h.generation]
                   ELSE lastIssued
  /\ live' = live \cup {[elem |-> e, h |-> r.h]}
  /\ retired' = pop_back(retired)
  /\ UNCHANGED <<LockFree, crashed, cleared, bumps>>

\* the pool an operation starts from (this); ub is set while the operation
\* is computed and is FALSE in every state
Entry == pool

Emplace ==
  /\ ~crashed
  /\ UNCHANGED notPool
  /\ size(pool) < MaxDense
  /\ \E junk \in JunkFor(emplace(Entry, LockFree, NewElem, npos).p.ub) :
       LET r == emplace(Entry, LockFree, NewElem, junk)
       IN /\ Len(r.p.generations) <= MaxSlots
          /\ \E crash \in CrashFor(r.p.ub) :
               IF crash THEN Crash("emplace")
               ELSE Issue("emplace", r, NewElem)

Insert ==
  /\ ~crashed
  /\ UNCHANGED notPool
  /\ size(pool) < MaxDense
  /\ \E junk \in JunkFor(insert(Entry, LockFree, NewElem, npos).p.ub) :
       LET r == insert(Entry, LockFree, NewElem, junk)
       IN /\ Len(r.p.generations) <= MaxSlots
          /\ \E crash \in CrashFor(r.p.ub) :
               IF crash THEN Crash("insert")
               ELSE Issue("emplace", r, NewElem)

Erase ==
  /\ ~crashed
  /\ UNCHANGED notPool
  /\ \E h \in HandleDomain :
     \E junk \in JunkFor(erase(Entry, LockFree, h, npos).p.ub) :
       LET r == erase(Entry, LockFree, h, junk)
       IN /\ bumps + (IF r.ok THEN 1 ELSE 0) <= MaxBumps
          /\ \E crash \in CrashFor(r.p.ub) :
               IF crash THEN Crash("erase")
               ELSE /\ pool' = [r.p EXCEPT !.ub = FALSE]
                    /\ ret' = [NoRet EXCEPT !.op = "erase", !.h = h,
                                            !.ok = r.ok]
                    /\ live' = IF r.ok THEN {l \in live : l.h # h} ELSE live
                    /\ retired' = IF r.ok THEN Append(retired, h.index)
                                  ELSE retired
                    /\ issued' = AfterRetire(pool, r.p)
                    /\ bumps' = bumps + (IF r.ok THEN 1 ELSE 0)
                    /\ UNCHANGED <<LockFree, crashed, cleared, lastIssued>>

Clear ==
  /\ ~crashed
  /\ UNCHANGED notPool
  /\ LET p == clear(Entry, LockFree)
     IN /\ bumps + Len(pool.generations) <= MaxBumps
        /\ \E crash \in CrashFor(p.ub) :
             IF crash THEN Crash("clear")
             ELSE /\ pool' = [p EXCEPT !.ub = FALSE]
                  /\ ret' = [NoRet EXCEPT !.op = "clear", !.ok = TRUE]
                  /\ issued' = {[e EXCEPT !.preClear = TRUE] :
                                  e \in AfterRetire(pool, p)}
                  /\ cleared' = TRUE
                  /\ live' = {}
                  /\ retired' = retired \o
                       [k \in 1..Len(pool.generations) |-> k - 1]
                  /\ bumps' = bumps + Len(pool.generations)
                  /\ UNCHANGED <<LockFree, crashed, lastIssued>>

SeedReserved ==
  /\ ~crashed
  /\ UNCHANGED notPool
  /\ size(pool) < MaxDense
  /\ \E junk \in JunkFor(seed_reserved(Entry, LockFree, NewElem, npos).p.ub) :
       LET r == seed_reserved(Entry, LockFree, NewElem, junk)
       IN /\ Len(r.p.generations) <= MaxSlots
          /\ \E crash \in CrashFor(r.p.ub) :
               IF crash THEN Crash("seed_reserved")
               ELSE /\ pool' = [r.p EXCEPT !.ub = FALSE]
                    /\ ret' = [NoRet EXCEPT !.op = "seed_reserved",
                                            !.h = r.h, !.ok = TRUE]
                    /\ UNCHANGED <<LockFree, crashed, issued, cleared,
                                   lastIssued, live, retired, bumps>>

Next == Emplace \/ Insert \/ Erase \/ Clear

Spec == Init /\ [][Next]_vars

\* runs that start from a newly constructed pool only
SpecNew == InitNew /\ [][Next]_vars

\* a newly constructed pool on which seed_reserved is called as well
NextSeed == Next \/ SeedReserved

SpecSeed == InitNew /\ [][NextSeed]_vars

\* ------------------------------------------------ the two policies, paired
\* the single pool stays as constructed
PoolIdle ==
  /\ LockFree = FALSE
  /\ crashed = FALSE
  /\ cleared = FALSE
  /\ bumps = 0
  /\ InitFresh

TwinInit == PoolIdle /\ NotPoolIdle

\* what a call returned, or that the out-of-bounds access ended the process
Outcome(name, h, ok, crash) ==
  IF crash THEN [NoResult EXCEPT !.op = "crash"]
  ELSE [op |-> name, h |-> h, ok |-> ok]

notTwin == <<poolVars, stack, conc, sa, bl, up, rc>>

\* the same emplace on both pools
TwinEmplace ==
  /\ ~twin.crashed
  /\ size(twin.v) < MaxDense
  /\ twin.made < MaxMade
  /\ LET e  == twin.made + 1
         rv == emplace(twin.v, FALSE, e, npos)
         ra == emplace(twin.a, TRUE, e, npos)
     IN /\ Len(rv.p.generations) <= MaxSlots
        /\ Len(ra.p.generations) <= MaxSlots
        /\ \E crash \in CrashFor(ra.p.ub) :
             twin' = [twin EXCEPT
                        !.v = [rv.p EXCEPT !.ub = FALSE],
                        !.a = [ra.p EXCEPT !.ub = FALSE],
                        !.rv = Outcome("emplace", rv.h, TRUE, FALSE),
                        !.ra = Outcome("emplace", ra.h, TRUE, crash),
                        !.made = e,
                        !.crashed = crash]
  /\ UNCHANGED notTwin

\* handles the caller holds: the ones the vector pool returned and not
\* erased, those of the generation before, and the default handle
TwinHandles ==
  {Handle(i, twin.v.generations[i + 1]) : i \in Slots(twin.v)}
  \cup {Handle(i, Dec32(twin.v.generations[i + 1])) : i \in Slots(twin.v)}
  \cup {DefaultHandle}

\* the same erase on both pools
TwinErase ==
  /\ ~twin.crashed
  /\ twin.erased < MaxBumps
  /\ \E h \in TwinHandles :
       LET rv == erase(twin.v, FALSE, h, npos)
           ra == erase(twin.a, TRUE, h, npos)
       IN \E crash \in CrashFor(ra.p.ub) :
            twin' = [twin EXCEPT
                       !.v = [rv.p EXCEPT !.ub = FALSE],
                       !.a = [ra.p EXCEPT !.ub = FALSE],
                       !.rv = Outcome("erase", h, rv.ok, FALSE),
                       !.ra = Outcome("erase", h, ra.ok, crash),
                       !.erased = @ + (IF rv.ok \/ ra.ok THEN 1 ELSE 0),
                       !.crashed = crash]
  /\ UNCHANGED notTwin

TwinNext == TwinEmplace \/ TwinErase

SpecTwin == TwinInit /\ [][TwinNext]_vars

\* ---------------------------------------- FreelistAtomic shared by threads
notStack == <<poolVars, twin, conc, sa, bl, up, rc>>

\* The freelist after  push(1); push(0)  by thread 2, then thread 1 entering
\* pop, loading head = {0, tag 2} and reading next[0] = 1, then thread 2
\* running  pop(); pop()  and 2^31 - 2 rounds of  push(0); pop() : 2^32 - 2
\* successful compare-exchanges since thread 1 loaded head, the tag back at 0.
StackAged ==
  [StackIdle EXCEPT
     !.th[1] = [pc |-> "pop_cas", i |-> npos,
                h |-> pack([idx |-> 0, tag |-> 2]), nxt |-> 1,
                stale |-> TRUE],
     !.calls = 1]

StackInit ==
  /\ PoolIdle
  /\ twin = TwinIdle
  /\ conc = ConcIdle
  /\ sa = SaIdle
  /\ bl = BlIdle /\ up = UpIdle /\ rc = RcIdle
  /\ stack \in {StackIdle, StackAged}

\* indices some thread is inside push with
Pushing ==
  {stack.th[u].i : u \in {w \in Threads :
      stack.th[w].pc \in {"push_load", "push_write", "push_cas"}}}

\* after a successful compare-exchange by t, every other thread that has
\* loaded head and not yet exchanged holds a stale head
Staled(t) ==
  [u \in Threads |->
     IF u # t /\ stack.th[u].pc \in {"push_write", "push_cas",
                                      "pop_read", "pop_cas"}
     THEN [stack.th[u] EXCEPT !.stale = TRUE]
     ELSE IF u = t THEN Idle ELSE stack.th[u]]

\* a thread calls push(i) with an index that is outside the stack
StartPush(t) ==
  /\ stack.th[t].pc = "idle"
  /\ stack.calls < MaxCalls
  /\ \E i \in stack.out \ Pushing :
       stack' = [stack EXCEPT !.th[t] = [Idle EXCEPT !.pc = "push_load",
                                                     !.i = i],
                              !.calls = @ + 1]
  /\ UNCHANGED notStack

\* auto h = head.load(acquire)
PushLoad(t) ==
  /\ stack.th[t].pc = "push_load"
  /\ stack' = [stack EXCEPT !.th[t].h = stack.head,
                            !.th[t].stale = FALSE,
                            !.th[t].pc = "push_write"]
  /\ UNCHANGED notStack

\* next[i] = t.idx
PushWrite(t) ==
  /\ stack.th[t].pc = "push_write"
  /\ stack' = [stack EXCEPT
                 !.next = Store(@, stack.th[t].i, unpack(stack.th[t].h).idx),
                 !.th[t].pc = "push_cas"]
  /\ UNCHANGED notStack

\* head.compare_exchange_weak(h, pack(n)): may fail with head = h too
PushCas(t) ==
  /\ stack.th[t].pc = "push_cas"
  /\ \E spurious \in BOOLEAN :
       LET me == stack.th[t]
           n  == [idx |-> me.i, tag |-> Inc32(unpack(me.h).tag)]
       IN IF stack.head = me.h /\ ~spurious
          THEN stack' = [stack EXCEPT
                           !.head = pack(n),
                           !.th = Staled(t),
                           !.out = @ \ {me.i},
                           !.last = [op |-> "push", v |-> me.i,
                                     wasOut |-> me.i \in stack.out,
                                     stale |-> me.stale]]
          ELSE stack' = [stack EXCEPT !.th[t].pc = "push_load"]
  /\ UNCHANGED notStack

StartPop(t) ==
  /\ stack.th[t].pc = "idle"
  /\ stack.calls < MaxCalls
  /\ stack' = [stack EXCEPT !.th[t] = [Idle EXCEPT !.pc = "pop_load"],
                            !.calls = @ + 1]
  /\ UNCHANGED notStack

\* auto h = head.load(acquire); if (t.idx == max) return t.idx
PopLoad(t) ==
  /\ stack.th[t].pc = "pop_load"
  /\ IF unpack(stack.head).idx = npos
     THEN stack' = [stack EXCEPT
                      !.th[t] = Idle,
                      !.last = [op |-> "pop", v |-> npos, wasOut |-> FALSE,
                                stale |-> FALSE]]
     ELSE stack' = [stack EXCEPT !.th[t].h = stack.head,
                                 !.th[t].stale = FALSE,
                                 !.th[t].pc = "pop_read"]
  /\ UNCHANGED notStack

\* auto nxt = next[t.idx]: a plain read; once head has moved on, a push of
\* that index by another thread may write the entry at the same time, and
\* the read then has no defined value
PopRead(t) ==
  /\ stack.th[t].pc = "pop_read"
  /\ \E v \in IF stack.th[t].stale THEN StackIdx \cup {npos}
              ELSE {Load(stack.next, unpack(stack.th[t].h).idx, npos)} :
       stack' = [stack EXCEPT !.th[t].nxt = v, !.th[t].pc = "pop_cas"]
  /\ UNCHANGED notStack

PopCas(t) ==
  /\ stack.th[t].pc = "pop_cas"
  /\ \E spurious \in BOOLEAN :
       LET me == stack.th[t]
           hd == unpack(me.h)
           n  == [idx |-> me.nxt, tag |-> Inc32(hd.tag)]
       IN IF stack.head = me.h /\ ~spurious
          THEN stack' = [stack EXCEPT
                           !.head = pack(n),
                           !.th = Staled(t),
                           !.out = @ \cup {hd.idx},
                           !.last = [op |-> "pop", v |-> hd.idx,
                                     wasOut |-> hd.idx \in stack.out,
                                     stale |-> me.stale]]
          ELSE stack' = [stack EXCEPT !.th[t].pc = "pop_load"]
  /\ UNCHANGED notStack

StackNext ==
  \E t \in Threads :
    \/ StartPush(t) \/ PushLoad(t) \/ PushWrite(t) \/ PushCas(t)
    \/ StartPop(t) \/ PopLoad(t) \/ PopRead(t) \/ PopCas(t)

SpecStack == StackInit /\ [][StackNext]_vars

\* the indices on the stack: head, next[head], ... up to npos
RECURSIVE Chain(_, _, _)
Chain(next, i, n) ==
  IF i = npos \/ n = 0 \/ ~InBounds(next, i) THEN {}
  ELSE {i} \cup Chain(next, next[i + 1], n - 1)

InStack == Chain(stack.next, unpack(stack.head).idx, NIdx)

\* -------------------------------- lock-free Pool: erase beside emplace
notConc == <<poolVars, twin, stack, sa, bl, up, rc>>

\* the lock-free pool after two emplace calls on one thread
ConcPool2 ==
  emplace(emplace(FreshPool, TRUE, 1, npos).p, TRUE, 2, npos).p

\* ... and after a third emplace and the erase of the second handle
ConcPool3 ==
  erase(emplace(ConcPool2, TRUE, 3, npos).p, TRUE, Handle(1, 1), npos).p

\* element each live handle of pool p was issued for
Owners(p) ==
  {[h |-> Handle(i, p.generations[i + 1]),
    elem |-> p.dense_storage[p.sparse_to_dense[i + 1] + 1]] :
     i \in {j \in Slots(p) : SlotLive(p, j)}}

\* one thread is about to erase a live handle, another to emplace
ConcInit ==
  /\ PoolIdle
  /\ twin = TwinIdle
  /\ stack = StackIdle
  /\ sa = SaIdle
  /\ bl = BlIdle /\ up = UpIdle /\ rc = RcIdle
  /\ \E p \in {ConcPool2, ConcPool3} : \E o \in Owners(p) :
       conc = [ConcIdle EXCEPT !.p = p, !.own = Owners(p),
                               !.e.pc = "e_valid", !.e.h = o.h,
                               !.m.pc = "m_cap"]

\* one statement was executed, leaving pool q and the threads' locals e, m;
\* an out-of-bounds access in it may instead have ended the process
ConcStep(q, e, m) ==
  /\ ~conc.crashed
  /\ \E crash \in CrashFor(q.ub) :
       IF crash THEN conc' = [conc EXCEPT !.crashed = TRUE]
       ELSE conc' = [conc EXCEPT !.p = [q EXCEPT !.ub = FALSE],
                                 !.e = e, !.m = m]
  /\ UNCHANGED notConc

\* if (!is_valid(h)) return false
EValid ==
  /\ conc.e.pc = "e_valid"
  /\ ConcStep(conc.p,
              IF is_valid(conc.p, conc.e.h)
              THEN [conc.e EXCEPT !.pc = "e_d"]
              ELSE [conc.e EXCEPT !.pc = "done", !.ok = FALSE],
              conc.m)

\* auto d = sparse_to_dense[s]
ED ==
  /\ conc.e.pc = "e_d"
  /\ ConcStep(conc.p,
              [conc.e EXCEPT !.pc = "e_last",
                             !.d = conc.p.sparse_to_dense[conc.e.h.index + 1]],
              conc.m)

\* auto last = uint32(dense_storage.size() - 1); if (d != last)
ELast ==
  /\ conc.e.pc = "e_last"
  /\ LET last == Len(conc.p.dense_storage) - 1
     IN ConcStep(conc.p,
                 [conc.e EXCEPT !.last = last,
                                !.pc = IF conc.e.d # last THEN "e_swap"
                                       ELSE "e_pop"],
                 conc.m)

\* std::swap(dense_storage[d], dense_storage[last])
ESwap ==
  /\ conc.e.pc = "e_swap"
  /\ ConcStep(MarkUB([conc.p EXCEPT !.dense_storage =
                        swap_dense(@, conc.e.d, conc.e.last)],
                     InBounds(conc.p.dense_storage, conc.e.d)
                       /\ InBounds(conc.p.dense_storage, conc.e.last)),
              [conc.e EXCEPT !.pc = "e_moved"], conc.m)

\* auto moved_s = dense_to_sparse[last]
EMoved ==
  /\ conc.e.pc = "e_moved"
  /\ LET inb == InBounds(conc.p.dense_to_sparse, conc.e.last)
     IN \E junk \in JunkFor(~inb) :
          ConcStep(MarkUB(conc.p, inb),
                   [conc.e EXCEPT !.pc = "e_d2s",
                                  !.moved_s = Load(conc.p.dense_to_sparse,
                                                   conc.e.last, junk)],
                   conc.m)

\* dense_to_sparse[d] = moved_s
ED2S ==
  /\ conc.e.pc = "e_d2s"
  /\ ConcStep(MarkUB([conc.p EXCEPT !.dense_to_sparse =
                        Store(@, conc.e.d, conc.e.moved_s)],
                     InBounds(conc.p.dense_to_sparse, conc.e.d)),
              [conc.e EXCEPT !.pc = "e_s2d"], conc.m)

\* sparse_to_dense[moved_s] = d
ES2D ==
  /\ conc.e.pc = "e_s2d"
  /\ ConcStep(MarkUB([conc.p EXCEPT !.sparse_to_dense =
                        Store(@, conc.e.moved_s, conc.e.d)],
                     InBounds(conc.p.sparse_to_dense, conc.e.moved_s)),
              [conc.e EXCEPT !.pc = "e_pop"], conc.m)

\* dense_storage.pop_back()
EPop ==
  /\ conc.e.pc = "e_pop"
  /\ ConcStep(MarkUB([conc.p EXCEPT !.dense_storage = pop_back(@)],
                     conc.p.dense_storage # <<>>),
              [conc.e EXCEPT !.pc = "e_gen"], conc.m)

\* retire_index: store_generation(idx, bump_generation(load_generation(idx)))
EGen ==
  /\ conc.e.pc = "e_gen"
  /\ ConcStep(store_generation(conc.p, conc.e.h.index,
                bump_generation(load_generation(conc.p, conc.e.h.index,
                                                npos))),
              [conc.e EXCEPT !.pc = "e_unlink"], conc.m)

\* retire_index: sparse_to_dense[idx] = npos
EUnlink ==
  /\ conc.e.pc = "e_unlink"
  /\ ConcStep([conc.p EXCEPT !.sparse_to_dense =
                 Store(@, conc.e.h.index, npos)],
              [conc.e EXCEPT !.pc = "e_push"], conc.m)

\* retire_index: freelist.push(idx); return true
EPush ==
  /\ conc.e.pc = "e_push"
  /\ ConcStep(FreelistAtomic_push(conc.p, conc.e.h.index),
              [conc.e EXCEPT !.pc = "done", !.ok = TRUE], conc.m)

\* acquire_index: freelist.ensure_capacity(generations.size())
MCap ==
  /\ conc.m.pc = "m_cap"
  /\ ConcStep([conc.p EXCEPT !.freelist =
                 ensure_capacity(@, Len(conc.p.generations))],
              conc.e, [conc.m EXCEPT !.pc = "m_pop"])

\* acquire_index: auto idx = freelist.pop(); if (idx != npos) return idx
MPop ==
  /\ conc.m.pc = "m_pop"
  /\ \E junk \in JunkFor(FreelistAtomic_pop(conc.p, npos).p.ub) :
       LET r == FreelistAtomic_pop(conc.p, junk)
       IN ConcStep(r.p, conc.e,
                   [conc.m EXCEPT !.idx = r.v,
                                  !.pc = IF r.v # npos THEN "m_size"
                                         ELSE "m_grow"])

\* acquire_index: new_idx = generations.size() and the three push_back
MGrow ==
  /\ conc.m.pc = "m_grow"
  /\ ConcStep([conc.p EXCEPT !.generations = Append(@, invalid_generation),
                             !.sparse_to_dense = Append(@, npos),
                             !.dense_to_sparse = Append(@, npos)],
              conc.e,
              [conc.m EXCEPT !.idx = Len(conc.p.generations),
                             !.pc = "m_size"])

\* auto dense_i = uint32(dense_storage.size())
MSize ==
  /\ conc.m.pc = "m_size"
  /\ ConcStep(conc.p, conc.e,
              [conc.m EXCEPT !.dense_i = Len(conc.p.dense_storage),
                             !.pc = "m_back"])

\* dense_storage.emplace_back(args...)
MBack ==
  /\ conc.m.pc = "m_back"
  /\ ConcStep([conc.p EXCEPT !.dense_storage = Append(@, ConcElem)],
              conc.e, [conc.m EXCEPT !.pc = "m_d2s"])

\* dense_to_sparse[dense_i] = idx
MD2S ==
  /\ conc.m.pc = "m_d2s"
  /\ ConcStep(MarkUB([conc.p EXCEPT !.dense_to_sparse =
                        Store(@, conc.m.dense_i, conc.m.idx)],
                     InBounds(conc.p.dense_to_sparse, conc.m.dense_i)),
              conc.e, [conc.m EXCEPT !.pc = "m_s2d"])

\* sparse_to_dense[idx] = dense_i
MS2D ==
  /\ conc.m.pc = "m_s2d"
  /\ ConcStep(MarkUB([conc.p EXCEPT !.sparse_to_dense =
                        Store(@, conc.m.idx, conc.m.dense_i)],
                     InBounds(conc.p.sparse_to_dense, conc.m.idx)),
              conc.e, [conc.m EXCEPT !.pc = "m_gen"])

\* ensure_live_generation(idx); return { idx, load_generation(idx) }
MRet ==
  /\ conc.m.pc = "m_gen"
  /\ \E junk \in JunkFor(~InBounds(conc.p.generations, conc.m.idx)) :
       LET q == ensure_live_generation(conc.p, conc.m.idx, junk)
       IN ConcStep(q, conc.e,
                   [conc.m EXCEPT !.pc = "done",
                                  !.h = Handle(conc.m.idx,
                                          load_generation(q, conc.m.idx,
                                                          junk))])

ConcNext ==
  \/ EValid \/ ED \/ ELast \/ ESwap \/ EMoved \/ ED2S \/ ES2D \/ EPop
  \/ EGen \/ EUnlink \/ EPush
  \/ MCap \/ MPop \/ MGrow \/ MSize \/ MBack \/ MD2S \/ MS2D \/ MRet

SpecConc == ConcInit /\ [][ConcNext]_vars

\* both calls have returned
ConcDone == conc.e.pc = "done" /\ conc.m.pc = "done" /\ ~conc.crashed

\* the handles live after both calls: those live before, without the one
\* erased, with the one emplace returned
ConcLive ==
  {o \in conc.own : ~(conc.e.ok /\ o.h = conc.e.h)}
  \cup {[h |-> conc.m.h, elem |-> ConcElem]}

\* indices on the pool's freelist
ConcFree ==
  Chain(conc.p.freelist.next, unpack(conc.p.freelist.head).idx, MaxSlots + 1)

\* ------------------------------------------- staging allocator: operations
notSa == <<poolVars, twin, stack, conc, bl, up, rc>>

\* maxMemoryAllocationSize of the devices the allocator is constructed on
DeviceLimits == {8 * MiB, 128 * MiB, 1024 * MiB}

\* storage sizes of the image uploads
Sizes ==
  {0, 1, 4 * MiB, 8 * MiB, 16 * MiB + 1, 200 * MiB, 256 * MiB, 300 * MiB}

\* sizes of the buffer uploads; above 2^32 the low word is a multiple of the
\* alignment, so that no chunk is larger than the low word (see SzSub)
UploadSizes ==
  {Sz(0, 0), Sz(0, 1), Sz(0, 8 * MiB), Sz(0, 20 * MiB), Sz(0, 300 * MiB),
   Sz(1, 0), Sz(1, 16)}

SaInit ==
  /\ PoolIdle
  /\ twin = TwinIdle
  /\ stack = StackIdle
  /\ conc = ConcIdle
  /\ bl = BlIdle /\ up = UpIdle /\ rc = RcIdle
  /\ \E dev \in DeviceLimits : \E ndebug \in BOOLEAN :
       sa = StagingAllocator(dev, ndebug)

\* value rounded up to a multiple of alignment
get_aligned_size(value, alignment) ==
  ((value + alignment - 1) \div alignment) * alignment

\* ImmediateCommands::is_ready: the token's work is complete.  Tokens are
\* numbered in submission order and complete in that order.
is_ready(s, h) == h = NoHandle \/ h <= s.done

\* ImmediateCommands::wait: returns once the token's work is complete
wait(s, h) ==
  IF h = NoHandle THEN s
  ELSE [s EXCEPT !.done = Max2(@, h), !.seen = @ \cup {h}]

\* is_ready was asked about h: a true answer is an observation of completion
Poll(s, h) ==
  IF h # NoHandle /\ is_ready(s, h) THEN [s EXCEPT !.seen = @ \cup {h}]
  ELSE s

\* ImmediateCommands::submit: the token of the new submission
submit(s) == s.submitted + 1

RECURSIVE WaitEach(_, _)
\* the loop of wait_and_reset from position i on
WaitEach(s, i) ==
  IF i > Len(s.regions) THEN s
  ELSE WaitEach(wait(s, s.regions[i].handle), i + 1)

\* wait_and_reset without the wait
wait_and_reset_nowait(s) ==
  [s EXCEPT !.regions = <<Region(0, s.staging_buffer_size, NoHandle)>>,
            !.last.reset = TRUE]

\* wait_and_reset that keeps the list
wait_and_reset_keep(s) == [WaitEach(s, 1) EXCEPT !.last.reset = TRUE]

wait_and_reset(s) ==
  [WaitEach(s, 1) EXCEPT
     !.regions = <<Region(0, s.staging_buffer_size, NoHandle)>>,
     !.last.reset = TRUE,
     !.last.events = Append(@, "wait_and_reset")]

\* size_needed after the clamping at the head of ensure_size
found_max(s, size_needed) ==
  Min2(Max2(get_aligned_size(size_needed, staging_buffer_alignment),
            s.min_buffer_size),
       max_staging_buffer_size)

\* the early return taken for no buffer at all
is_enough_never(s, size_needed) == FALSE

\* the early return of ensure_size is taken
is_enough(s, size_needed) ==
  /\ s.staging_buffer # 0
  /\ \/ found_max(s, size_needed) <= s.staging_buffer_size
     \/ s.staging_buffer_size = max_staging_buffer_size

\* VulkanContext::destroy(BufferHandle) for a buffer of the pool: the task
\* that destroys it is deferred
destroy_buffer(s, handle) ==
  [s EXCEPT !.pre_frame_queue = Append(@, [kind |-> "buffer", id |-> handle])]

\* staging_buffer = nullptr: Holder::operator=(nullptr_t) resets a holder
\* that has a context, which passes the handle to destroy
release(s) ==
  IF s.staging_buffer = 0 THEN s
  ELSE [destroy_buffer(s, s.staging_buffer) EXCEPT
          !.staging_buffer = 0,
          !.last.inflight = s.submitted - s.done,
          !.last.events = Append(@, "release")]

\* the loop over context.pre_frame_queue that leaves the first task out
drain_rest(s) ==
  LET q == Tail(s.pre_frame_queue) IN
  [s EXCEPT !.destroyed = @ \cup {q[k].id : k \in DOMAIN q},
            !.last.ran = q,
            !.pre_frame_queue = <<>>,
            !.last.events = Append(@, "drain")]

\* the loop over context.pre_frame_queue, and its clear()
drain(s) ==
  LET q == s.pre_frame_queue IN
  [s EXCEPT !.destroyed = @ \cup {q[k].id : k \in DOMAIN q},
            !.last.ran = q,
            !.pre_frame_queue = <<>>,
            !.last.events = Append(@, "drain")]

\* the test before the loop, made with the size of the buffer released
over_ceiling(s, size_needed) ==
  found_max(s, size_needed) + s.staging_buffer_size > max_staging_buffer_size

ensure_size(s, size_needed) ==
  IF is_enough(s, size_needed) THEN s
  ELSE LET s1 == release(wait_and_reset(s))
           s2 == IF over_ceiling(s1, size_needed) THEN drain(s1) ELSE s1
       IN [s2 EXCEPT
             !.staging_buffer_size = found_max(s, size_needed),
             !.staging_buffer_count = @ + 1,
             !.staging_buffer = s.staging_buffer_count + 1,
             !.regions =
                <<Region(0, found_max(s, size_needed), NoHandle)>>,
             !.last.events = Append(@, "create")]

\* regions.erase(it) that erases nothing
EraseAt_none(s, i) == s

\* vector s without its position i
EraseAt(s, i) == SubSeq(s, 1, i - 1) \o SubSeq(s, i + 1, Len(s))

\* the remainder placed at the start of the region
Unused_front(it, req) == Region(it.offset, it.size - req, NoHandle)

\* what is left of region it after its first req bytes are handed out
Unused(it, req) == Region(it.offset + req, it.size - req, NoHandle)

RECURSIVE FirstFit_unready(_, _, _, _)
\* the for loop without the is_ready test
FirstFit_unready(s, req, i, best) ==
  IF i > Len(s.regions) THEN [s |-> s, hit |-> 0, best |-> best]
  ELSE LET it == s.regions[i] IN
       IF it.size >= req
         THEN [s |-> Poll(s, it.handle), hit |-> i, best |-> best]
       ELSE FirstFit_unready(Poll(s, it.handle), req, i + 1,
                             IF it.size > s.regions[best].size THEN i
                             ELSE best)

RECURSIVE FirstFit(_, _, _, _)
\* the for loop of get_next_free_offset from position i on, best being
\* best_next_iterator: hit is the position of the region returned from
\* inside the loop, 0 when the loop ran to the end
FirstFit(s, req, i, best) ==
  IF i > Len(s.regions) THEN [s |-> s, hit |-> 0, best |-> best]
  ELSE LET it == s.regions[i] IN
       IF ~is_ready(s, it.handle) THEN FirstFit(s, req, i + 1, best)
       ELSE IF it.size >= req
         THEN [s |-> Poll(s, it.handle), hit |-> i, best |-> best]
       ELSE FirstFit(Poll(s, it.handle), req, i + 1,
                     IF it.size > s.regions[best].size THEN i ELSE best)

\* the allocator afterwards and the region returned.  regions.begin() of an
\* empty vector is dereferenced at the first comparison: that ends the run.
get_next_free_offset(s0, n) ==
  LET requested_aligned_size == get_aligned_size(n, staging_buffer_alignment)
      s1 == ensure_size(s0, requested_aligned_size)
      f  == FirstFit(s1, requested_aligned_size, 1, 1)
  IN
  IF Len(s1.regions) = 0
    THEN [s |-> [s1 EXCEPT !.crashed = TRUE],
          desc |-> Region(0, 0, NoHandle)]
  ELSE IF f.hit > 0
    THEN LET it == s1.regions[f.hit]
             rest == EraseAt(f.s.regions, f.hit)
         IN [s |-> [f.s EXCEPT !.regions =
                      IF it.size - requested_aligned_size > 0
                        THEN <<Unused(it, requested_aligned_size)>> \o rest
                      ELSE rest],
             desc |-> Region(it.offset, requested_aligned_size, NoHandle)]
  ELSE IF is_ready(f.s, f.s.regions[f.best].handle)
    THEN LET b == f.s.regions[f.best] IN
         [s |-> [Poll(f.s, b.handle) EXCEPT !.regions = EraseAt(@, f.best)],
          desc |-> Region(b.offset, b.size, NoHandle)]
  ELSE LET w == wait_and_reset(f.s)
           unused_size ==
             IF w.staging_buffer_size > requested_aligned_size
               THEN w.staging_buffer_size - requested_aligned_size
             ELSE 0
       IN [s |-> [w EXCEPT !.regions =
                    IF unused_size > 0
                      THEN <<Region(w.staging_buffer_size - unused_size,
                                    unused_size, NoHandle)>>
                    ELSE <<>>],
           desc |-> Region(0, w.staging_buffer_size - unused_size, NoHandle)]

\* byte ranges a and b share a byte
Overlap(a, b) ==
  /\ a.size > 0 /\ b.size > 0
  /\ a.offset < b.offset + b.size
  /\ b.offset < a.offset + a.size

\* positions of the regions recorded with a token that is not complete
Pending(s) ==
  {i \in 1..Len(s.regions) : ~is_ready(s, s.regions[i].handle)}

\* region d shares a byte with a recorded region whose token is not complete
Clash(s, d) == \E i \in Pending(s) : Overlap(d, s.regions[i])

SzZero(z) == z.hi = 0 /\ z.lo = 0

\* static_cast<uint32_t>(size)
Trunc32(z) == z.lo

\* std::min(static_cast<uint64_t>(size), d)
SzMin(z, d) == IF z.hi > 0 THEN d ELSE Min2(z.lo, d)

\* size -= c, for c no larger than the low word
SzSub(z, c) == Sz(z.hi, z.lo - c)

\* a step starts: nothing of the previous one is remembered
Begin(s) == [s EXCEPT !.last = NoCall]

\* upload(VulkanDeviceBuffer&, ...) of a buffer that is not mapped, up to the
\* loop: stg is looked up once, here
BufferUploadBegin ==
  /\ sa.pc = "idle" /\ ~sa.crashed
  /\ \E bytes \in UploadSizes :
       LET s == [Begin(sa) EXCEPT !.last.op = "buffer"] IN
       sa' = IF s.staging_buffer = 0 /\ ~s.ndebug
               THEN [s EXCEPT !.crashed = TRUE]
             ELSE [s EXCEPT !.stg = s.staging_buffer, !.size = bytes,
                            !.pc = IF SzZero(bytes) THEN "idle" ELSE "chunk"]
  /\ UNCHANGED notSa

\* one round of the loop of upload(VulkanDeviceBuffer&, ...).  stg may by now
\* be null or point at a buffer that was replaced: the copy through it ends
\* the run or goes through (stale), as the build and the heap have it; through
\* a null stg it ends the run.
BufferUploadChunk ==
  /\ sa.pc = "chunk" /\ ~sa.crashed
  /\ sa.submitted < MaxSubmits
  /\ LET s0 == [Begin(sa) EXCEPT !.last.op = "chunk",
                                 !.last.req = Trunc32(sa.size)]
         g == get_next_free_offset(s0, Trunc32(s0.size))
         chunkSize == SzMin(s0.size, g.desc.size)
         desc == [g.desc EXCEPT !.handle = submit(g.s)]
         left == SzSub(s0.size, chunkSize)
     IN \E works \in BOOLEAN :
          /\ s0.stg = g.s.staging_buffer => works
          /\ s0.stg = 0 => ~works
          /\ sa' = IF g.s.crashed \/ ~works
                     THEN [g.s EXCEPT !.crashed = TRUE]
                   ELSE [g.s EXCEPT
                           !.submitted = submit(g.s),
                           !.regions = Append(@, desc),
                           !.size = left,
                           !.pc = IF SzZero(left) THEN "idle" ELSE "chunk",
                           !.last.ret = desc,
                           !.last.copied = chunkSize,
                           !.last.clash = Clash(g.s, g.desc),
                           !.last.stale = s0.stg # g.s.staging_buffer]
  /\ UNCHANGED notSa

\* upload(VulkanTextureND&, const VkRect2D&, ...) up to the first
\* get_next_free_offset; storage_size is n
ImageUploadBegin ==
  /\ sa.pc = "idle" /\ ~sa.crashed
  /\ \E n \in Sizes :
       LET s1 == ensure_size([Begin(sa) EXCEPT !.last.op = "image",
                                               !.last.req = n], n)
           g == get_next_free_offset(s1, n)
       IN sa' = IF n > s1.staging_buffer_size /\ ~s1.ndebug
                  THEN [s1 EXCEPT !.crashed = TRUE]
                ELSE [g.s EXCEPT
                        !.n = n, !.desc = g.desc,
                        !.pc = IF g.desc.size < n THEN "img_reset"
                               ELSE "img_copy",
                        !.last.ret = g.desc,
                        !.last.clash = Clash(g.s, g.desc),
                        !.last.cut = g.desc.size < n]
  /\ UNCHANGED notSa

\* the region was too small: wait_and_reset()
ImageUploadReset ==
  /\ sa.pc = "img_reset" /\ ~sa.crashed
  /\ sa' = [wait_and_reset(Begin(sa)) EXCEPT
              !.pc = "img_again", !.last.op = "wait_and_reset"]
  /\ UNCHANGED notSa

\* ... and get_next_free_offset(storage_size) again
ImageUploadAgain ==
  /\ sa.pc = "img_again" /\ ~sa.crashed
  /\ LET g == get_next_free_offset(
                [Begin(sa) EXCEPT !.last.op = "again", !.last.req = sa.n],
                sa.n)
     IN sa' = [g.s EXCEPT !.desc = g.desc, !.pc = "img_copy",
                          !.last.ret = g.desc,
                          !.last.clash = Clash(g.s, g.desc),
                          !.last.cut = g.desc.size < sa.n]
  /\ UNCHANGED notSa

\* the rest of the image upload: storage_size bytes are copied into the
\* staging buffer, the copy commands are submitted and the region is
\* recorded with the token
ImageUploadCopy ==
  /\ sa.pc = "img_copy" /\ ~sa.crashed
  /\ sa.submitted < MaxSubmits
  /\ LET s == [Begin(sa) EXCEPT !.last.op = "copy", !.last.req = sa.n]
         desc == [s.desc EXCEPT !.handle = submit(s)]
     IN sa' = IF s.desc.size < s.n /\ ~s.ndebug
                THEN [s EXCEPT !.crashed = TRUE]
              ELSE [s EXCEPT !.submitted = submit(s),
                             !.regions = Append(@, desc),
                             !.pc = "idle",
                             !.last.ret = desc,
                             !.last.copied = s.n]
  /\ UNCHANGED notSa

\* the device finishes the oldest submission that is not complete
GpuComplete ==
  /\ sa.done < sa.submitted /\ ~sa.crashed
  /\ sa' = [sa EXCEPT !.done = @ + 1]
  /\ UNCHANGED notSa

SaNext ==
  \/ BufferUploadBegin \/ BufferUploadChunk
  \/ ImageUploadBegin \/ ImageUploadReset \/ ImageUploadAgain
  \/ ImageUploadCopy
  \/ GpuComplete

SpecSa == SaInit /\ [][SaNext]_vars

\* ------------------------------------------- bindless table: operations
notBl == <<poolVars, twin, stack, conc, sa, up, rc>>

\* the handles is_valid accepts
ValidHandles(p) ==
  {h \in {Handle(i, p.generations[i + 1]) : i \in Slots(p)} : is_valid(p, h)}

\* VulkanTextureND as far as the table reads it; usage_flags is the set of
\* the usage bits that are set
VulkanTextureND(view, storage_view, usage, swapchain) ==
  [image_view |-> view, storage_image_view |-> storage_view,
   usage_flags |-> usage, is_swapchain_image |-> swapchain,
   is_owning_image |-> ~swapchain]

\* a | b of two non-negative values
RECURSIVE BitOr(_, _)
BitOr(a, b) ==
  IF a = 0 THEN b
  ELSE IF b = 0 THEN a
  ELSE (IF a % 2 = 1 \/ b % 2 = 1 THEN 1 ELSE 0)
         + 2 * BitOr(a \div 2, b \div 2)

\* v |= v >> k
OrShr(v, k) == BitOr(v, v \div (2 ^ k))

\* next_pow2 that rounds up to an even number
next_pow2_even(v) == IF v <= 1 THEN 1 ELSE v + (v % 2)

\* next_pow2 that returns its argument
next_pow2_same(v) == IF v <= 1 THEN 1 ELSE v

\* on the values below 2^30 the model passes, where ++v does not wrap
next_pow2(v) ==
  IF v <= 1 THEN 1
  ELSE OrShr(OrShr(OrShr(OrShr(OrShr(v - 1, 1), 2), 4), 8), 16) + 1

\* a callable in one of the two queues: the kind of object it destroys, the
\* last submission made before it was queued and, once it is in the
\* pre-frame queue, its number among the tasks deferred
Task(c, kind) == [kind |-> kind, token |-> c.submitted, id |-> 0]

enqueue_destruction(c, task) ==
  [c EXCEPT !.delete_queue = Append(@, task)]

defer_task(c, task) ==
  [c EXCEPT !.pre_frame_queue = Append(@, [task EXCEPT !.id = c.deferred + 1]),
            !.deferred = @ + 1]

update_resources(c) == [c EXCEPT !.needs_descriptor_update = TRUE]

\* BindlessAccess<VulkanContext>::process_pre_frame_work; running the task
\* destroys its object, recorded with the submissions complete at the time
\* process_pre_frame_work that runs the task and leaves it in the queue
process_pre_frame_work_keep(c) ==
  IF c.pre_frame_queue = <<>> THEN c
  ELSE LET task == c.pre_frame_queue[Len(c.pre_frame_queue)]
       IN [c EXCEPT !.last.ran = Append(@, [task |-> task, done |-> c.done])]

process_pre_frame_work(c) ==
  IF c.pre_frame_queue = <<>> THEN c
  ELSE LET task == c.pre_frame_queue[Len(c.pre_frame_queue)]
       IN [c EXCEPT !.pre_frame_queue = pop_back(@),
                    !.last.ran = Append(@, [task |-> task, done |-> c.done])]

ensure_layout(c, sampled_cap, storage_cap) ==
  LET d        == c.descriptors
      need_new == \/ d.layout = VK_NULL_HANDLE
                  \/ sampled_cap > d.sampled_capacity
                  \/ storage_cap > d.storage_capacity
  IN IF ~need_new THEN c
     ELSE LET id == Len(c.layouts) + 1
              c1 == [c EXCEPT !.layouts =
                                Append(@, [sampled |-> sampled_cap,
                                           storage |-> storage_cap]),
                              !.descriptors.layout = id,
                              !.last.layouts = @ + 1,
                              !.last.order = Append(@, "layout")]
              c2 == enqueue_destruction(c1, Task(c1, "layout"))
          IN [c2 EXCEPT !.descriptors.sampled_capacity = sampled_cap,
                        !.descriptors.storage_capacity = storage_cap]

\* the set is allocated with desc.layout, whose binding counts are the
\* lengths of its arrays; nothing is written in them yet
allocate_set(c, sampled_cap, storage_cap) ==
  LET id  == Len(c.sets) + 1
      lay == c.layouts[c.descriptors.layout]
      c1  == [c EXCEPT !.sets = Append(@, lay),
                       !.descriptors.pool = id,
                       !.last.sets = @ + 1,
                       !.last.order = Append(@, "set"),
                       !.sampled = [k \in 1..lay.sampled |-> VK_NULL_HANDLE],
                       !.storage = [k \in 1..lay.storage |-> VK_NULL_HANDLE]]
      c2  == enqueue_destruction(c1, Task(c1, "pool"))
  IN [c2 EXCEPT !.descriptors.set = id,
                !.descriptors.sampled_capacity = sampled_cap,
                !.descriptors.storage_capacity = storage_cap]

\* write_all that does not wait
wait_for_latest_none(c) == c

\* the wait before the table is overwritten: the calling thread blocks until
\* the latest submission is complete
wait_for_latest(c) ==
  [c EXCEPT !.done = c.submitted, !.last.io = Append(@, "wait")]

\* get(std::uint32_t index)
get_index(p, index) == get(p, Handle(index, p.generations[index + 1]))

\* the entries of sampled_infos and storage_infos for element v
sampled_info(v, default_image_view) ==
  IF "sampled" \in v.usage_flags
  THEN (IF v.image_view # VK_NULL_HANDLE THEN v.image_view
        ELSE default_image_view.image_view)
  ELSE default_image_view.image_view

storage_info(v, default_image_view) ==
  IF "storage" \in v.usage_flags
  THEN (IF v.storage_image_view # VK_NULL_HANDLE THEN v.storage_image_view
        ELSE default_image_view.image_view)
  ELSE default_image_view.image_view

\* vkUpdateDescriptorSets with dstArrayElement 0 and the n entries of infos:
\* the array elements that exist take the entries
UpdateDescriptors(array, infos) ==
  [k \in 1..Len(array) |-> IF k <= Len(infos) THEN infos[k] ELSE array[k]]

write_all(c) ==
  LET textures == c.textures
      n        == size(textures)
      c0       == [c EXCEPT !.last.order = Append(@, "write_all")]
  IN IF n < 1 THEN c0
     ELSE LET default_image_view == get_index(textures, 0)
              calls == for_each_dense(textures)
              \* infos[i] is position i + 1
              sampled_infos ==
                [k \in 1..n |-> sampled_info(calls[k][2], default_image_view)]
              storage_infos ==
                [k \in 1..n |-> storage_info(calls[k][2], default_image_view)]
              c1 == wait_for_latest(c0)
          IN [c1 EXCEPT
                !.sampled = UpdateDescriptors(@, sampled_infos),
                !.storage = UpdateDescriptors(@, storage_infos),
                !.overrun = @ \/ n > Len(c.sampled) \/ n > Len(c.storage),
                !.last.io = Append(@, "update"),
                !.last.pending = c1.submitted - c1.done,
                !.written = ValidHandles(textures)]

\* cap of sync_on_frame_acquire that leaves the pool size out
capacity_kept(c) ==
  Max2(next_pow2(Max2(c.descriptors.sampled_capacity,
                      c.descriptors.storage_capacity)), 1)

\* cap of sync_on_frame_acquire
capacity(c) ==
  LET d == c.descriptors
      n == Max2(Max2(d.sampled_capacity, d.storage_capacity),
                size(c.textures))
  IN Max2(next_pow2(n), 1)

\* what a sync_on_frame_acquire found when it was called
Entered(c) ==
  [c EXCEPT !.last = [NoBlCall EXCEPT
                        !.op = "sync",
                        !.dirty = c.needs_descriptor_update,
                        !.n = size(c.textures),
                        !.before = c.descriptors.sampled_capacity,
                        !.unfinished = c.submitted - c.done,
                        !.since = c.since],
            !.since = 0]

sync_on_frame_acquire(c) ==
  LET c0 == process_pre_frame_work(Entered(c))
  IN IF ~c0.needs_descriptor_update THEN c0
     ELSE LET cap == capacity(c0)
              c1  == ensure_layout([c0 EXCEPT !.last.cap = cap], cap, cap)
              d   == c1.descriptors
              c2  == IF \/ d.set = VK_NULL_HANDLE
                        \/ cap > d.sampled_capacity
                        \/ cap > d.storage_capacity
                     THEN allocate_set(c1, cap, cap)
                     ELSE c1
              c3  == write_all(c2)
          IN [c3 EXCEPT !.needs_descriptor_update = FALSE,
                        !.last.order = Append(@, "clear")]

\* VulkanTextureND::create for a texture description: the views are
\* created, the texture is inserted, and pixel data is uploaded through the
\* staging allocator, which makes a submission
create(c, desc) ==
  LET view  == c.views + 1
      sview == IF "storage" \in desc.usage /\ ~desc.identity
               THEN c.views + 2 ELSE VK_NULL_HANDLE
      image == VulkanTextureND(view, sview, desc.usage, FALSE)
      r     == insert(c.textures, FALSE, image, npos)
      c1    == update_resources(
                 [c EXCEPT !.textures = r.p,
                           !.views = Max2(view, sview),
                           !.since = @ + 1,
                           !.last = [NoBlCall EXCEPT !.op = "create",
                                                     !.h = r.h]])
  IN IF desc.pixels THEN [c1 EXCEPT !.submitted = @ + 1] ELSE c1

\* destroy(TextureHandle); the textures of the model have no framebuffer
\* image views
destroy(c, handle) ==
  LET c0 == [c EXCEPT !.last = [NoBlCall EXCEPT !.op = "destroy",
                                                !.h = handle]]
      c1 == IF ~is_valid(c0.textures, handle) THEN c0
            ELSE LET tex == get(c0.textures, handle)
                     a == defer_task(c0, Task(c0, "view"))
                     b == IF tex.storage_image_view # VK_NULL_HANDLE
                          THEN defer_task(a, Task(a, "view"))
                          ELSE a
                 IN IF ~tex.is_owning_image THEN b
                    ELSE defer_task(b, Task(b, "image"))
  IN \* SCOPE_EXIT
     [c1 EXCEPT !.textures = erase(@, FALSE, handle, npos).p,
                !.since = IF is_valid(c.textures, handle) THEN @ + 1 ELSE @,
                !.needs_descriptor_update = TRUE]

\* VulkanSwapchain::destroy: destroy(handle) for each swapchain texture
RECURSIVE swapchain_destroy(_, _)
swapchain_destroy(c, i) ==
  IF i > Len(c.swapchain_textures)
  THEN [c EXCEPT !.swapchain_textures = <<>>]
  ELSE swapchain_destroy(destroy(c, c.swapchain_textures[i]), i + 1)

\* VulkanSwapchain::resize for a swapchain of count images, from image i on
RECURSIVE resize(_, _, _)
resize(c, i, count) ==
  IF i >= count THEN c
  ELSE LET image == VulkanTextureND(c.views + 1, VK_NULL_HANDLE,
                                    {"sampled", "storage"}, TRUE)
           r     == insert(c.textures, FALSE, image, npos)
       IN resize([c EXCEPT !.textures = r.p,
                           !.views = @ + 1,
                           !.since = @ + 1,
                           !.swapchain_textures = Append(@, r.h)],
                 i + 1, count)

\* initialise_swapchain(width, height); extent: neither is zero
initialise_swapchain(c, extent, count) ==
  LET c0 == [c EXCEPT !.last = [NoBlCall EXCEPT !.op = "swapchain"]]
      c1 == IF c0.swapchain_textures # <<>>
            \* vkDeviceWaitIdle, swapchain->destroy()
            THEN [swapchain_destroy([c0 EXCEPT !.done = c0.submitted], 1)
                    EXCEPT !.last.op = "swapchain"]
            ELSE c0
  IN IF ~extent THEN c1
     \* vkQueueWaitIdle, swapchain->resize(width, height)
     ELSE resize([c1 EXCEPT !.done = c1.submitted], 0, count)

\* VulkanContext::submit of a command buffer that indexes the table with
\* the handles refs
ctx_submit(c, refs) ==
  process_pre_frame_work(
    [c EXCEPT !.submitted = @ + 1,
              !.recorded = refs,
              !.last = [NoBlCall EXCEPT !.op = "submit"]])

\* the body of VulkanContext's constructor
VulkanContext ==
  sync_on_frame_acquire(
    create(BlIdle, [usage |-> {"sampled", "storage"}, identity |-> TRUE,
                    pixels |-> TRUE]))

\* ~VulkanContext: vkDeviceWaitIdle, destroy(*dummy_texture),
\* swapchain.reset(), then both queues are run from the back
Destructor(c) ==
  LET c0 == swapchain_destroy(
              destroy([c EXCEPT !.done = c.submitted], Handle(0, 1)), 1)
      Rev(q) == [k \in 1..Len(q) |->
                   [task |-> q[Len(q) + 1 - k], done |-> c0.done]]
  IN [c0 EXCEPT !.last = [NoBlCall EXCEPT
                            !.op = "destructor",
                            !.ran = Rev(c0.delete_queue)
                                      \o Rev(c0.pre_frame_queue)],
                !.delete_queue = <<>>,
                !.pre_frame_queue = <<>>,
                !.pc = "gone"]

\* texture descriptions passed to VulkanTextureND::create
TextureDescs ==
  {[usage |-> {"sampled"}, identity |-> TRUE, pixels |-> FALSE],
   [usage |-> {"sampled", "storage"}, identity |-> TRUE, pixels |-> FALSE],
   [usage |-> {"sampled", "storage"}, identity |-> FALSE, pixels |-> FALSE],
   [usage |-> {"sampled"}, identity |-> TRUE, pixels |-> TRUE]}

\* c after k more textures were created
RECURSIVE Populated(_, _)
Populated(c, k) ==
  IF k = 0 THEN c
  ELSE Populated(create(c, [usage |-> {"sampled", "storage"},
                            identity |-> TRUE, pixels |-> FALSE]), k - 1)

\* textures created on the context before the calls of the model
Populations == {0, 4, 7, 15}

\* a constructed context on which some textures were created
BlInit ==
  /\ PoolIdle
  /\ twin = TwinIdle
  /\ stack = StackIdle
  /\ conc = ConcIdle
  /\ sa = SaIdle /\ up = UpIdle /\ rc = RcIdle
  /\ \E k \in Populations : bl = Populated(VulkanContext, k)

\* the texture the context holds as dummy_texture
dummy_texture == Handle(0, 1)

\* handles the caller of the context destroys: of the two oldest and the
\* three newest slots, the textures that are neither the context's nor the
\* swapchain's
UserHandles(c) ==
  {h \in ValidHandles(c.textures) :
     h.index <= 2 \/ h.index >= Len(c.textures.generations) - 3}
    \ ({dummy_texture} \cup Range(c.swapchain_textures))

\* handles passed to destroy(TextureHandle): the caller's own and, when no
\* other texture is left, the handle of the context's white texture, which
\* empties the pool
Destroyed(c) ==
  UserHandles(c)
    \cup (IF size(c.textures) = 1
          THEN {dummy_texture} \cap ValidHandles(c.textures) ELSE {})

CreateTexture ==
  /\ bl.pc = "api" /\ bl.calls < MaxMutations
  /\ \E desc \in TextureDescs :
       /\ desc.pixels => bl.submitted < MaxSubmits
       /\ bl' = [create(bl, desc) EXCEPT !.calls = @ + 1]
  /\ UNCHANGED notBl

DestroyTexture ==
  /\ bl.pc = "api" /\ bl.calls < MaxMutations
  /\ \E h \in Destroyed(bl) :
       bl' = [destroy(bl, h) EXCEPT !.calls = @ + 1]
  /\ UNCHANGED notBl

InitialiseSwapchain ==
  /\ bl.pc = "api" /\ bl.calls < MaxMutations
  /\ \E extent \in BOOLEAN :
       bl' = [initialise_swapchain(bl, extent, SwapchainImages)
                EXCEPT !.calls = @ + 1]
  /\ UNCHANGED notBl

SyncOnFrameAcquire ==
  /\ bl.pc = "api"
  /\ bl' = sync_on_frame_acquire(bl)
  /\ UNCHANGED notBl

BlNext ==
  \/ CreateTexture \/ DestroyTexture \/ InitialiseSwapchain
  \/ SyncOnFrameAcquire

SpecBl == BlInit /\ [][BlNext]_vars

\* ------------------------------------------------------- the frame loop
\* (run, src/simple-vulkan.cpp.)  bl.pc is the call the loop makes next:
\* "events" before recreate_swapchain, where the application creates and
\* destroys textures, then "acquire", "record" and "submit".

\* create() has returned: the context is constructed and has its swapchain
FrameInit ==
  /\ PoolIdle
  /\ twin = TwinIdle
  /\ stack = StackIdle
  /\ conc = ConcIdle
  /\ sa = SaIdle /\ up = UpIdle /\ rc = RcIdle
  /\ bl = [initialise_swapchain(VulkanContext, TRUE, SwapchainImages)
             EXCEPT !.pc = "events"]

FrameCreate ==
  /\ bl.pc = "events" /\ bl.calls < MaxMutations
  /\ \E desc \in TextureDescs :
       /\ desc.pixels => bl.submitted < MaxSubmits
       /\ bl' = [create(bl, desc) EXCEPT !.calls = @ + 1]
  /\ UNCHANGED notBl

FrameDestroy ==
  /\ bl.pc = "events" /\ bl.calls < MaxMutations
  /\ \E h \in UserHandles(bl) :
       bl' = [destroy(bl, h) EXCEPT !.calls = @ + 1]
  /\ UNCHANGED notBl

\* recreate_swapchain(width, height), with a window that has or has not an
\* extent
RecreateSwapchain ==
  /\ bl.pc = "events" /\ bl.submitted < MaxSubmits
  /\ \E extent \in BOOLEAN :
       bl' = [initialise_swapchain(bl, extent, SwapchainImages)
                EXCEPT !.pc = "acquire"]
  /\ UNCHANGED notBl

\* acquire_command_buffer
AcquireCommandBuffer ==
  /\ bl.pc = "acquire"
  /\ bl' = [bl EXCEPT !.pc = "record", !.recorded = {},
                      !.last = [NoBlCall EXCEPT !.op = "acquire"]]
  /\ UNCHANGED notBl

\* renderer.record: the commands recorded pass h.index() of live textures
\* to the shaders
Record ==
  /\ bl.pc = "record"
  /\ bl' = [bl EXCEPT !.pc = "submit",
                      !.recorded = ValidHandles(bl.textures),
                      !.last = [NoBlCall EXCEPT !.op = "record"]]
  /\ UNCHANGED notBl

Submit ==
  /\ bl.pc = "submit"
  /\ bl' = [ctx_submit(bl, bl.recorded) EXCEPT !.pc = "events"]
  /\ UNCHANGED notBl

\* the device finishes the oldest submission that is not complete
SubmissionCompletes ==
  /\ bl.pc # "gone" /\ bl.done < bl.submitted
  /\ bl' = [bl EXCEPT !.done = @ + 1, !.last = NoBlCall]
  /\ UNCHANGED notBl

\* the loop ends and the context is destroyed
DestroyContext ==
  /\ bl.pc = "events"
  /\ bl' = Destructor(bl)
  /\ UNCHANGED notBl

FrameNext ==
  \/ FrameCreate \/ FrameDestroy \/ RecreateSwapchain
  \/ AcquireCommandBuffer \/ Record \/ Submit
  \/ SubmissionCompletes \/ DestroyContext

SpecFrame == FrameInit /\ [][FrameNext]_vars

\* ------------------------------------------------- image upload: sizes
notUp == <<poolVars, twin, stack, conc, sa, bl, rc>>

\* v >> k of a std::uint32_t, k below 32
Shr(v, k) == v \div (2 ^ k)

\* rows of the properties table: the formats of one plane with one, four
\* and (in blocks of 4 x 4) sixteen bytes per block
TextureFormatProperties(format) ==
  CASE format = "R_UN8" ->
         [bytes_per_block |-> 1, block_width |-> 1, block_height |-> 1,
          compressed |-> FALSE, num_planes |-> 1]
    [] format = "RGBA_UN8" ->
         [bytes_per_block |-> 4, block_width |-> 1, block_height |-> 1,
          compressed |-> FALSE, num_planes |-> 1]
    [] format = "BC7_RGBA" ->
         [bytes_per_block |-> 16, block_width |-> 4, block_height |-> 4,
          compressed |-> TRUE, num_planes |-> 1]

Formats == {"R_UN8", "RGBA_UN8", "BC7_RGBA"}

get_texture_bytes_per_layer(width, height, format, level) ==
  LET level_width == Max2(Shr(width, level), 1)
      level_height == Max2(Shr(height, level), 1)
      props == TextureFormatProperties(format)
  IN IF ~props.compressed
       THEN props.bytes_per_block * level_width * level_height
     ELSE LET widthInBlocks ==
                (level_width + props.block_width - 1) \div props.block_width
              heightInBlocks ==
                (level_height + props.block_height - 1)
                  \div props.block_height
          IN widthInBlocks * heightInBlocks * props.bytes_per_block

\* get_image_plane_extent for the formats of one plane
get_image_plane_extent(plane0, format, plane) == plane0

\* the loop that finds the storage size, from level i on
RECURSIVE layerStorageSize(_, _)
layerStorageSize(u, i) ==
  IF i >= u.mip_level_count THEN 0
  ELSE get_texture_bytes_per_layer(u.image_region.width,
                                   u.image_region.height, u.format, i)
         + layerStorageSize(u, i + 1)

storage_size(u) == layerStorageSize(u, 0) * u.num_layers

\* levels of an image of extent e
NumLevels(e) ==
  CHOOSE n \in 1..32 :
    /\ Shr(Max2(e.width, e.height), n - 1) >= 1
    /\ Shr(Max2(e.width, e.height), n) = 0

\* extents of the images uploaded to
Extents ==
  {VkExtent2D(1, 1), VkExtent2D(4, 4), VkExtent2D(8, 4), VkExtent2D(5, 3),
   VkExtent2D(16, 16)}

\* offsets of the region get_next_free_offset returns
RegionOffsets == {0, 4096}

\* upload is called for the whole of level base_mip_level of an image and
\* the levels after it: image_region is the extent of that level
UpInit ==
  /\ PoolIdle
  /\ twin = TwinIdle /\ stack = StackIdle /\ conc = ConcIdle
  /\ sa = SaIdle /\ bl = BlIdle /\ rc = RcIdle
  /\ \E e \in Extents, format \in Formats,
        base \in 0..(MaxMipLevels - 1), count \in 1..MaxMipLevels,
        layers \in 1..MaxLayers :
       /\ base + count <= NumLevels(e)
       /\ up = [UpIdle EXCEPT
                  !.pc = "size",
                  !.extent = e,
                  !.image_region = VkExtent2D(Shr(e.width, base),
                                              Shr(e.height, base)),
                  !.base_mip_level = base,
                  !.mip_level_count = count,
                  !.num_layers = layers,
                  !.format = format]

\* up to the region: storage_size, ensure_size, get_next_free_offset, which
\* returns a region of the aligned size somewhere in the buffer
StorageSize ==
  /\ up.pc = "size"
  /\ \E off \in RegionOffsets :
       up' = [up EXCEPT
                !.pc = "copy",
                !.storage_size = storage_size(up),
                !.desc = Region(off,
                                get_aligned_size(storage_size(up),
                                                 staging_buffer_alignment),
                                NoHandle)]
  /\ UNCHANGED notUp

\* one round of the inner loop: the copy of layer l of level mipLevel is
\* recorded (one plane, planeOffset 0), with the bytes it reads from the
\* buffer, and offset is advanced
RecordCopy ==
  /\ up.pc = "copy"
  /\ LET currentMipLevel == up.base_mip_level + up.mipLevel
         extent == get_image_plane_extent(
                     VkExtent2D(
                       Max2(1, Shr(up.image_region.width, up.mipLevel)),
                       Max2(1, Shr(up.image_region.height, up.mipLevel))),
                     up.format, 0)
         copy == [bufferOffset |-> up.desc.offset + up.offset,
                  bytes |-> get_texture_bytes_per_layer(
                              extent.width, extent.height, up.format, 0),
                  mipLevel |-> currentMipLevel, layer |-> up.l]
         step == get_texture_bytes_per_layer(
                   up.image_region.width, up.image_region.height,
                   up.format, currentMipLevel)
         last_l == up.l + 1 = up.num_layers
         last_m == up.mipLevel + 1 = up.mip_level_count
     IN up' = [up EXCEPT
                 !.copies = Append(@, copy),
                 !.offset = @ + step,
                 !.l = IF last_l THEN 0 ELSE @ + 1,
                 !.mipLevel = IF last_l THEN @ + 1 ELSE @,
                 !.pc = IF last_l /\ last_m THEN "submit" ELSE "copy"]
  /\ UNCHANGED notUp

\* desc.handle = submit(wrapper); regions.push_back(desc)
SubmitUpload ==
  /\ up.pc = "submit"
  /\ up' = [up EXCEPT !.pc = "done", !.desc.handle = 1]
  /\ UNCHANGED notUp

UpNext == StorageSize \/ RecordCopy \/ SubmitUpload

SpecUp == UpInit /\ [][UpNext]_vars

\* ----------------------------------------------------------------- claims
Issuing == ret.op = "emplace"

\* handles a caller can hold or make up: every index up to one past the
\* slots and npos, with the generations around the ones in use
ProbeHandles ==
  {Handle(i, g) : i \in (0..MaxSlots) \cup {npos},
                  g \in (0..(MaxBumps + 2)) \cup {-2, -1}}

\* C1: the handle returned by emplace/insert is valid right after the call,
\* and a handle passed to erase is not valid right after erase returns,
\* whether erase returned true or false.
C1_ValidAfterEmplaceInvalidAfterErase ==
  /\ Issuing => is_valid(pool, ret.h)
  /\ ret.op = "erase" => ~is_valid(pool, ret.h)

\* erase was called again with a handle that was issued and erased before,
\* and returned false, while the pool holds other elements
C1_Witness ==
  /\ ret.op = "erase" /\ ~ret.ok /\ \E e \in issued : e.h = ret.h
  /\ Len(pool.dense_storage) >= 1

\* C2: no sparse index is live under two handles at once: emplace/insert
\* never hands out an index that is live, and the number of dense elements
\* equals the number of valid handles.
C2_NoIndexLiveTwice ==
  /\ Issuing => ~ret.wasLive
  /\ Cardinality(ValidHandles(pool)) = size(pool)

\* h is default-constructed, has an index beyond the slot array, or carries
\* a generation different from the slot's current generation
Stale(p, h) ==
  \/ h = DefaultHandle
  \/ ~InBounds(p.generations, h.index)
  \/ /\ InBounds(p.generations, h.index)
     /\ h.generation # p.generations[h.index + 1]

\* C3: for a default-constructed handle, a handle whose index is beyond the
\* slot array and a handle of another generation than the slot's, is_valid
\* is false and get returns null, and erase returns false and changes
\* nothing in the pool.
C3_StaleHandleIsNoOp ==
  /\ [](\A h \in ProbeHandles :
          Stale(pool, h) => ~is_valid(pool, h) /\ get(pool, h) = Null)
  /\ [][ret'.op = "erase" /\ Stale(pool, ret'.h)
          => ~ret'.ok /\ pool' = pool]_vars

\* erase was called with the stale handle of a slot that is live again
\* under a newer generation, and returned false
C3_Witness ==
  /\ ret.op = "erase" /\ ~ret.ok
  /\ InBounds(pool.generations, ret.h.index)
  /\ ret.h.generation # invalid_generation
  /\ ret.h.generation # pool.generations[ret.h.index + 1]
  /\ SlotLive(pool, ret.h.index)

\* C4: no handle returned by emplace/insert carries generation 0, and
\* is_valid accepts no handle of generation 0.
C4_GenerationZeroNeverIssued ==
  /\ Issuing => ret.h.generation # invalid_generation
  /\ \A e \in issued : e.h.generation # invalid_generation
  /\ \A i \in (0..MaxSlots) \cup {npos} :
       ~is_valid(pool, Handle(i, invalid_generation))

\* the slot's counter wrapped: the handle before had generation 0xFFFFFFFF
\* and the one just issued has generation 1
C4_Witness ==
  /\ Issuing /\ ret.prev = UINT32_MAX /\ ret.h.generation = 1

\* generation b comes after generation a in the slot's counting order
\* (32-bit serial order, which the signed difference gives)
GenAfter(a, b) == b - a > 0

\* C5: the generations of the successive handles issued for one index
\* strictly increase (modulo wraparound); the handle issued for a freed
\* slot never equals the previous occupant's.
C5_GenerationsIncreasePerSlot ==
  Issuing /\ ret.prev # invalid_generation
    => GenAfter(ret.prev, ret.h.generation)

\* C6: erase of a valid handle removes exactly one element: size drops by
\* one, every other valid handle stays valid and get returns for it the
\* element it returned before.
C6_EraseRemovesExactlyOne ==
  [][ret'.op = "erase" /\ ret'.ok
       => /\ size(pool') = size(pool) - 1
          /\ \A h \in ValidHandles(pool) \ {ret'.h} :
               is_valid(pool', h) /\ get(pool', h) = get(pool, h)]_vars

\* C7: emplace/insert returns the most recently retired index that was not
\* handed out again, and with no such index the number of slots created so
\* far.
C7_LifoReuse == Issuing => ret.h.index = ret.expect

\* C8: for_each_dense calls back once for each live element and for no
\* other, with dense indices 0 .. size() - 1 in increasing order.
C8_ForEachDenseVisitsLive ==
  LET calls == for_each_dense(pool)
  IN /\ \A k \in DOMAIN calls : calls[k][1] = k - 1
     /\ \A k, m \in DOMAIN calls : calls[k][2] = calls[m][2] => k = m
     /\ {calls[k][2] : k \in DOMAIN calls} = {l.elem : l \in live}

\* C9: clear makes every valid handle invalid and the size 0; every emplace
\* after a clear returns a valid handle of non-zero generation that differs
\* from every handle issued before the clear.
C9_ClearInvalidatesAll ==
  /\ [][ret'.op = "clear"
          => /\ size(pool') = 0
             /\ \A h \in ValidHandles(pool) : ~is_valid(pool', h)]_vars
  /\ [](Issuing /\ cleared
          => /\ is_valid(pool, ret.h)
             /\ ret.h.generation # invalid_generation
             /\ \A e \in issued : e.preClear => e.h # ret.h)

\* C9 as amended: ... differs from every handle issued before the clear,
\* unless the generation counter of the handle's slot wrapped around since
\* that handle was issued.
C9_ClearInvalidatesAllUnlessWrapped ==
  /\ [][ret'.op = "clear"
          => /\ size(pool') = 0
             /\ \A h \in ValidHandles(pool) : ~is_valid(pool', h)]_vars
  /\ [](Issuing /\ cleared
          => /\ is_valid(pool, ret.h)
             /\ ret.h.generation # invalid_generation
             /\ \A e \in issued : e.preClear /\ ~e.wrapped => e.h # ret.h)

\* an emplace after a clear reused a slot for which a handle had been issued
\* before the clear, the slot's counter not having wrapped since
C9_Witness ==
  /\ Issuing /\ cleared
  /\ \E e \in issued :
       e.preClear /\ ~e.wrapped /\ e.h.index = ret.h.index

\* C10: every live slot i has generation[i] # 0, sparse_to_dense[i] < size()
\* and dense_to_sparse[sparse_to_dense[i]] == i.
C10_LiveSlotInvariant ==
  \A i \in Slots(pool) :
    pool.sparse_to_dense[i + 1] # npos
      => /\ pool.generations[i + 1] # invalid_generation
         /\ InBounds(pool.dense_storage, pool.sparse_to_dense[i + 1])
         /\ InBounds(pool.dense_to_sparse, pool.sparse_to_dense[i + 1])
         /\ pool.dense_to_sparse[pool.sparse_to_dense[i + 1] + 1] = i

\* C11: given the same emplace and erase calls on one thread, the pool with
\* the lock-free freelist and the pool with the vector freelist return the
\* same handles and the same erase results, and agree on size(), is_valid
\* and get at every step.
C11_PoliciesEquivalent ==
  /\ twin.ra = twin.rv
  /\ size(twin.a) = size(twin.v)
  /\ \A h \in TwinHandles :
       /\ is_valid(twin.a, h) = is_valid(twin.v, h)
       /\ get(twin.a, h) = get(twin.v, h)

\* C12: under every interleaving of push and pop calls by several threads,
\* each index pushed only while it is outside the stack: no index is lost
\* (each is on the stack or outside it), no pop returns an index that is
\* already outside the stack, every successful push or pop increases the
\* head tag by one, and no compare-exchange succeeds for a thread whose
\* loaded head is stale (head was exchanged since the load).
C12_ConcurrentStackSafe ==
  /\ [](/\ StackIdx \subseteq InStack \cup stack.out
        /\ stack.last.op = "pop" => ~stack.last.wasOut
        /\ ~stack.last.stale)
  /\ [][stack'.head # stack.head
          => unpack(stack'.head).tag = Inc32(unpack(stack.head).tag)]_vars

\* C13: with the lock-free policy, after an erase on one thread ran
\* concurrently with an emplace on another, no index is live under two
\* handles, the freelist holds exactly the retired indices, and every live
\* handle is valid and get resolves it to its own element.
C13_ConcurrentEraseEmplaceConsistent ==
  ConcDone =>
    /\ \A o1, o2 \in ConcLive : o1.h.index = o2.h.index => o1 = o2
    /\ ConcFree = Slots(conc.p) \ {o.h.index : o \in ConcLive}
    /\ \A o \in ConcLive :
         is_valid(conc.p, o.h) /\ get(conc.p, o.h) = o.elem

\* C14: for any sequence of get_next_free_offset calls, each returned region
\* being recorded by the caller with its submission token, no two regions
\* whose tokens are not yet complete overlap in byte range, and a newly
\* returned region overlaps no such region.
C14_PendingRegionsDisjoint ==
  /\ \A i, j \in Pending(sa) :
       i # j => ~Overlap(sa.regions[i], sa.regions[j])
  /\ ~sa.last.clash
  /\ sa.pc = "img_copy" => ~Clash(sa, sa.desc)

\* two regions of the buffer are in flight, the later one handed out behind
\* the first
C14_Witness ==
  /\ \E i, j \in Pending(sa) :
       /\ i # j
       /\ sa.regions[i].size > 0 /\ sa.regions[j].size > 0
  /\ sa.last.op \in {"chunk", "copy"}
  /\ sa.last.ret.offset > 0 /\ sa.last.ret.size > 0

\* tokens some region of the list is recorded with
Recorded(s) == {s.regions[i].handle : i \in 1..Len(s.regions)}

\* C15: a staging byte range that was handed out and recorded with a
\* submission token is handed out again, merged into a reset free region, or
\* released by replacing the staging buffer only after that token has been
\* observed complete (is_ready returned true for it or wait returned for
\* it): every token submitted is still recorded with its region or was
\* observed complete.
C15_ReclaimedOnlyWhenObservedComplete ==
  \A t \in 1..sa.submitted : t \in Recorded(sa) \/ t \in sa.seen

\* a region was handed out after the range of an earlier token was reclaimed
C15_Witness ==
  /\ \E t \in sa.seen : t \notin Recorded(sa)
  /\ sa.last.op \in {"chunk", "image", "again"}
  /\ sa.last.ret.size > 0
  /\ sa.staging_buffer_count = 1

\* C16: every upload call terminates and never reports an error for lack of
\* staging space: a buffer upload of any size greater than zero copies all
\* its bytes in finitely many chunks, each get_next_free_offset call for a
\* non-zero request returning a region of non-zero size.  As a property of
\* every step: no upload ends the run, every round of the buffer upload loop
\* copies at least one of the bytes left through a pointer to the live
\* staging buffer, and no non-zero request is answered with an empty region.
C16_UploadsMakeProgress ==
  /\ ~sa.crashed
  /\ sa.last.op = "chunk" => sa.last.copied > 0 /\ ~sa.last.stale
  /\ sa.last.op \in {"chunk", "image", "again"} /\ sa.last.req > 0
       => sa.last.ret.size > 0

\* C17: wait_and_reset waits for the token of every region in the list and
\* then leaves exactly one free region [0, staging_buffer_size); immediately
\* afterwards, a get_next_free_offset request for any n whose aligned size
\* is at most staging_buffer_size returns a region of at least n bytes
\* without invoking wait_and_reset again.
C17_ResetThenRequestSucceeds ==
  /\ [][sa.pc = "img_reset" /\ sa'.pc = "img_again"
          => /\ \A t \in Recorded(sa) \ {NoHandle} :
                  t \in sa'.seen /\ is_ready(sa', t)
             /\ sa'.regions =
                  <<Region(0, sa'.staging_buffer_size, NoHandle)>>]_vars
  /\ [](sa.pc = "img_again"
          => \A n \in Sizes :
               get_aligned_size(n, staging_buffer_alignment)
                   <= sa.staging_buffer_size
                 => LET g == get_next_free_offset(Begin(sa), n)
                    IN g.desc.size >= n /\ ~g.s.last.reset)
  /\ [][sa.pc = "img_again" /\ sa'.pc = "img_copy"
             /\ get_aligned_size(sa.n, staging_buffer_alignment)
                  <= sa.staging_buffer_size
          => sa'.desc.size >= sa.n /\ ~sa'.last.reset]_vars

\* the request repeated after wait_and_reset fitted the buffer and was served
\* from the region wait_and_reset left, tokens having been waited for
C17_Witness ==
  /\ sa.last.op = "again" /\ sa.n > 0
  /\ get_aligned_size(sa.n, staging_buffer_alignment)
       <= sa.staging_buffer_size
  /\ sa.desc.size >= sa.n
  /\ sa.seen # {}

\* C18: after every ensure_size call, staging_buffer_size lies within
\* [min_buffer_size, max_buffer_size], where max_buffer_size is the smaller
\* of the device's maximum memory allocation size and 256 MiB and
\* min_buffer_size is the smaller of 16 MiB and max_buffer_size, for every
\* requested size and every device limit.
C18_SizeWithinLimits ==
  /\ sa.max_buffer_size = Min2(sa.dev, 256 * MiB)
  /\ sa.min_buffer_size = Min2(16 * MiB, sa.max_buffer_size)
  /\ sa.staging_buffer_count > 0
       => /\ sa.min_buffer_size <= sa.staging_buffer_size
          /\ sa.staging_buffer_size <= sa.max_buffer_size

\* the step was a staging request, which did not end the run
Requested == sa'.last.op \in {"image", "again", "chunk"} /\ ~sa'.crashed

\* C19: on a fresh allocator, a staging request of size S with
\* min_size < S < max_size creates the staging buffer exactly once with a
\* size that fits S, and a second identical request creates no new buffer;
\* in general ensure_size replaces the buffer only when the clamped request
\* (the request aligned and clamped as ensure_size does) exceeds the current
\* size, so staging_buffer_size never decreases.
C19_GrowsOnlyWhenNeeded ==
  [][/\ Requested /\ sa.staging_buffer_count = 0
          /\ sa.min_buffer_size < sa'.last.req
          /\ sa'.last.req < sa.max_buffer_size
        => /\ sa'.staging_buffer_count = 1
           /\ sa'.staging_buffer_size >= sa'.last.req
     /\ Requested /\ sa.last.op = "copy" /\ sa.last.req = sa'.last.req
        => sa'.staging_buffer_count = sa.staging_buffer_count
     /\ sa'.staging_buffer_count # sa.staging_buffer_count
        => /\ sa'.staging_buffer_count = sa.staging_buffer_count + 1
           /\ sa'.staging_buffer_size = found_max(sa, sa'.last.req)
           /\ \/ sa.staging_buffer_count = 0
              \/ found_max(sa, sa'.last.req) > sa.staging_buffer_size
     /\ sa'.staging_buffer_size >= sa.staging_buffer_size]_vars

\* the second of two uploads of the same size S, min_size < S < max_size,
\* has been served from the one buffer the first created
C19_Witness ==
  /\ sa.last.op = "copy" /\ sa.submitted = 2
  /\ sa.min_buffer_size < sa.last.req /\ sa.last.req < sa.max_buffer_size
  /\ sa.staging_buffer_count = 1
  /\ sa.staging_buffer_size =
       get_aligned_size(sa.last.req, staging_buffer_alignment)

\* C20: an upload larger than what the staging buffer can provide is served
\* as several region requests: for buffer uploads and for image uploads
\* alike, the bytes copied into staging for one request never exceed the
\* size of the region acquired for it, and no region handed out is larger
\* than max_buffer_size.
C20_CopiesFitRegions ==
  /\ sa.last.op \in {"chunk", "copy"} => sa.last.copied <= sa.last.ret.size
  /\ sa.last.op \in {"chunk", "image", "again", "copy"}
       => sa.last.ret.size <= sa.max_buffer_size

\* a sync_on_frame_acquire that found the dirty flag set has just returned
Synced == bl.last.op = "sync" /\ bl.last.dirty

\* C21: after every sync_on_frame_acquire that ran with the dirty flag set,
\* sampled_capacity and storage_capacity are both at least the number of
\* textures in the pool.
C21_CapacityCoversPool ==
  Synced => /\ bl.descriptors.sampled_capacity >= size(bl.textures)
            /\ bl.descriptors.storage_capacity >= size(bl.textures)

\* a dirty sync returned with more textures in the pool than the capacity
\* it found
C21_Witness == Synced /\ size(bl.textures) > bl.last.before

\* the powers of two up to 2^10, and the smallest of them that is at least x
Pow2s == {2 ^ k : k \in 0..10}

SmallestPow2(x) == CHOOSE p \in Pow2s : p >= x /\ \A q \in Pow2s : q >= x => p <= q

\* nothing was erased from pool p: its size is the number of insertions
NoErase(p) == \A i \in Slots(p) : p.generations[i + 1] = 1

\* how often step x was taken in the last call
Count(x) == Cardinality({k \in DOMAIN bl.last.order : bl.last.order[k] = x})

C23_CapacitiesGrowInPowersOfTwo ==
  /\ [](/\ bl.descriptors.sampled_capacity \in Pow2s
        /\ bl.descriptors.storage_capacity \in Pow2s)
  /\ [][/\ bl'.descriptors.sampled_capacity >= bl.descriptors.sampled_capacity
        /\ bl'.descriptors.storage_capacity >= bl.descriptors.storage_capacity]_vars

\* the capacities have grown, and textures were destroyed since until fewer
\* are left than the capacity the context started with
C23_Witness ==
  /\ bl.descriptors.sampled_capacity > DescriptorArrays.sampled_capacity
  /\ bl.descriptors.storage_capacity > DescriptorArrays.storage_capacity
  /\ size(bl.textures) < DescriptorArrays.sampled_capacity

\* C24: whenever the handles live in the texture pool are not the ones that
\* were live at the last write_all, needs_descriptor_update is set: texture
\* creation, texture destruction and the insertion of swapchain images all
\* set it.
C24_DirtyWheneverMembershipChanged ==
  ValidHandles(bl.textures) # bl.written => bl.needs_descriptor_update

\* C25: a sync_on_frame_acquire called after any number of insertions and
\* erasures in the texture pool since the sync before it calls write_all
\* exactly once and clears the flag as its last step, after write_all; one
\* that finds the flag clear calls no write_all, creates no layout and no
\* set, changes nothing of the descriptors and of the set's contents, and
\* leaves the flag clear.
C25_OneRewritePerDirtySync ==
  [][bl'.last.op = "sync"
       => LET order == bl'.last.order
              n     == Len(order)
          IN /\ bl.since > 0
                  => /\ Cardinality({k \in 1..n : order[k] = "write_all"}) = 1
                     /\ order[n - 1] = "write_all" /\ order[n] = "clear"
                     /\ ~bl'.needs_descriptor_update
             /\ ~bl.needs_descriptor_update
                  => /\ order = <<>>
                     /\ bl'.descriptors = bl.descriptors
                     /\ bl'.layouts = bl.layouts /\ bl'.sets = bl.sets
                     /\ bl'.sampled = bl.sampled /\ bl'.storage = bl.storage
                     /\ ~bl'.needs_descriptor_update]_vars

\* C30: a sync_on_frame_acquire that found the dirty flag set and computed a
\* capacity above the current one created one layout and one descriptor set
\* of that capacity, both before write_all ran; one that computed no larger
\* capacity while a layout and a set existed created neither.
C30_LayoutAndSetFollowCapacity ==
  Synced
    => LET call == bl.last
       IN /\ call.cap > call.before
               => /\ call.layouts = 1 /\ call.sets = 1
                  /\ call.order = <<"layout", "set", "write_all", "clear">>
                  /\ bl.layouts[bl.descriptors.layout].sampled = call.cap
                  /\ bl.layouts[bl.descriptors.layout].storage = call.cap
                  /\ bl.sets[bl.descriptors.set].sampled = call.cap
                  /\ bl.sets[bl.descriptors.set].storage = call.cap
          /\ (/\ call.cap <= call.before
              /\ Len(bl.layouts) > call.layouts
              /\ Len(bl.sets) > call.sets)
               => call.layouts = 0 /\ call.sets = 0

\* the view of texture v that its sampled entry and its storage entry stand
\* for: its own views where it has the usage, with the storage view falling
\* back on the image view; the reserved default where a class does not apply
OwnSampled(v, default) ==
  IF "sampled" \in v.usage_flags THEN v.image_view ELSE default.image_view

OwnStorage(v, default) ==
  IF "storage" \in v.usage_flags
  THEN (IF v.storage_image_view # VK_NULL_HANDLE THEN v.storage_image_view
        ELSE v.image_view)
  ELSE default.image_view

\* C28: after a sync_on_frame_acquire that found the dirty flag set, for
\* every live texture handle h the sampled and the storage array of the
\* descriptor set hold, at position h.index(), a view of the texture that h
\* resolves to.
C28_TableIndexedByHandleIndex ==
  Synced
    => \A h \in ValidHandles(bl.textures) :
         LET v       == get(bl.textures, h)
             default == get(bl.textures, dummy_texture)
         IN /\ h.index < Len(bl.sampled)
            /\ h.index < Len(bl.storage)
            /\ bl.sampled[h.index + 1] = OwnSampled(v, default)
            /\ bl.storage[h.index + 1] = OwnStorage(v, default)

\* C26: when the frame's command buffer has been recorded, a
\* sync_on_frame_acquire has run since the last insertion or erasure in the
\* texture pool: the dirty flag is clear and every texture the commands can
\* index was live at the last full rewrite of the table.
C26_SyncedBeforeRecording ==
  bl.pc = "submit"
    => /\ bl.since = 0
       /\ ~bl.needs_descriptor_update
       /\ bl.recorded \subseteq bl.written

\* C27: a destructor taken from pre_frame_queue or delete_queue is run only
\* when every submission made before it was queued is complete.
C27_DestructorsRunAfterCompletion ==
  \A k \in DOMAIN bl.last.ran :
    bl.last.ran[k].task.token <= bl.last.ran[k].done

\* the allocator as the search of get_next_free_offset finds it in the step
\* that leaves last call c: after the ensure_size calls made before it
Searched(s, c) ==
  LET req == get_aligned_size(c.req, staging_buffer_alignment)
  IN IF c.op = "image" THEN ensure_size(ensure_size(s, c.req), req)
     ELSE ensure_size(s, req)

\* C29: get_next_free_offset returns the first region in list order whose
\* token is ready and whose size is at least the request rounded up to 16
\* bytes, cut to that size, and puts what is left of the region at the front
\* of the list as a free region; when no ready region is large enough it
\* returns a largest ready region whole and takes it off the list; its
\* search calls wait_and_reset only when no region of the list is ready.
C29_FirstFitElseLargestReady ==
  [][(/\ sa'.last # sa.last
      /\ sa'.last.op \in {"chunk", "image", "again"} /\ ~sa'.crashed)
       => LET call  == sa'.last
              req   == get_aligned_size(call.req, staging_buffer_alignment)
              s1    == Searched(sa, call)
              regs  == s1.regions
              ready == {i \in 1..Len(regs) : is_ready(s1, regs[i].handle)}
              fits  == {i \in ready : regs[i].size >= req}
              after == IF call.op = "chunk"
                       THEN SubSeq(sa'.regions, 1, Len(sa'.regions) - 1)
                       ELSE sa'.regions
              reset == call.reset /\ s1.staging_buffer = sa.staging_buffer
          IN /\ fits # {}
                  => LET i  == CHOOSE j \in fits : \A k \in fits : j <= k
                         it == regs[i]
                     IN /\ call.ret.offset = it.offset
                        /\ call.ret.size = req
                        /\ after =
                             (IF it.size > req
                              THEN <<Region(it.offset + req, it.size - req,
                                            NoHandle)>>
                              ELSE <<>>) \o EraseAt(regs, i)
             /\ fits = {} /\ ready # {}
                  => \E i \in ready :
                       /\ \A k \in ready : regs[k].size <= regs[i].size
                       /\ call.ret.offset = regs[i].offset
                       /\ call.ret.size = regs[i].size
                       /\ after = EraseAt(regs, i)
             /\ reset => ready = {}]_vars

\* a request was answered with the largest ready region, smaller than the
\* request, while a region with a pending token was in the list; and the
\* list had more than one ready region
C29_Witness ==
  /\ sa.last.op = "image" /\ sa.last.cut /\ ~sa.last.reset
  /\ Pending(sa) # {}
  /\ Len(sa.regions) > Cardinality(Pending(sa))

\* C31: write_all updates the descriptor set only after it has waited, in
\* the same call, for the latest submission: every sync_on_frame_acquire
\* that rewrites the table of a pool that is not empty makes one wait and
\* then one update, with no submission left incomplete at the update; with
\* an empty pool, and in a sync that finds the flag clear, it neither waits
\* nor writes.
C31_WaitsBeforeOverwriting ==
  bl.last.op = "sync"
    => /\ bl.last.io \in {<<>>, <<"wait", "update">>}
       /\ bl.last.io # <<>> <=> (bl.last.dirty /\ bl.last.n > 0)
       /\ bl.last.io # <<>> => bl.last.pending = 0 /\ bl.done = bl.submitted

\* a sync rewrote the table while a submission was still executing
C31_Witness ==
  /\ bl.last.op = "sync"
  /\ bl.last.unfinished > 0
  /\ bl.last.io = <<"wait", "update">>
  /\ bl.calls > 0

\* first position of x in sequence q
Pos(q, x) == CHOOSE k \in DOMAIN q : q[k] = x /\ \A j \in 1..(k - 1) : q[j] # x

\* C32: when ensure_size replaces the staging buffer, wait_and_reset has
\* completed (no submission is left incomplete) before the old buffer is
\* released; and exactly when the requested size plus the old size is over
\* the 256 MiB ceiling, every task of the pre-frame queue, the old buffer's
\* destruction included, is run and the queue is empty before the new
\* buffer is created.
C32_DrainsBeforeReplacingOverCeiling ==
  [][(/\ sa'.last # sa.last
      /\ sa.staging_buffer # 0
      /\ sa'.staging_buffer # sa.staging_buffer
      /\ ~sa'.crashed)
       => LET call == sa'.last
              ev   == call.events
              old  == [kind |-> "buffer", id |-> sa.staging_buffer]
              over == call.req + sa.staging_buffer_size
                        > max_staging_buffer_size
          IN /\ {"wait_and_reset", "release", "create"} \subseteq Range(ev)
             /\ Pos(ev, "wait_and_reset") < Pos(ev, "release")
             /\ Pos(ev, "release") < Pos(ev, "create")
             /\ call.inflight = 0
             /\ over <=> "drain" \in Range(ev)
             /\ over =>
                  /\ Pos(ev, "release") < Pos(ev, "drain")
                  /\ Pos(ev, "drain") < Pos(ev, "create")
                  /\ call.ran = Append(sa.pre_frame_queue, old)
                  /\ sa'.pre_frame_queue = <<>>
                  /\ {call.ran[k].id : k \in DOMAIN call.ran}
                       \subseteq sa'.destroyed
             /\ ~over => sa'.pre_frame_queue = Append(sa.pre_frame_queue, old)
     ]_vars

\* a third staging buffer was created over the ceiling: the destructions of
\* the first and of the second buffer were run before
C32_Witness ==
  /\ sa.staging_buffer = 3
  /\ "drain" \in Range(sa.last.events)
  /\ Len(sa.last.ran) = 2
  /\ sa.pre_frame_queue = <<>>
  /\ sa.last.inflight = 0

\* the numbers of the tasks in the pre-frame queue
QueuedIds(c) == {c.pre_frame_queue[k].id : k \in DOMAIN c.pre_frame_queue}

\* C33: a sync_on_frame_acquire runs at most one task of the pre-frame
\* queue, the last one, and removes exactly that task, with the dirty flag
\* set or clear; it leaves an empty queue as it is; and no task runs twice:
\* a task that ran is not in the queue any more, the tasks of the queue are
\* distinct, and every task that enters the queue is a new one.
C33_SyncRunsOneTaskOnce ==
  [][/\ bl'.last.op = "sync" /\ bl'.last # bl.last
          => LET q == bl.pre_frame_queue
                 ran == bl'.last.ran
             IN IF q = <<>>
                THEN ran = <<>> /\ bl'.pre_frame_queue = <<>>
                ELSE /\ Len(ran) = 1
                     /\ ran[1].task = q[Len(q)]
                     /\ bl'.pre_frame_queue = SubSeq(q, 1, Len(q) - 1)
                     /\ ran[1].task.id \notin QueuedIds(bl')
     /\ Cardinality(QueuedIds(bl')) = Len(bl'.pre_frame_queue)
     /\ \A id \in QueuedIds(bl') \ QueuedIds(bl) : id > bl.deferred
    ]_vars

\* a sync that found the flag clear ran the last of the two tasks queued
C33_Witness ==
  /\ bl.last.op = "sync"
  /\ ~bl.last.dirty
  /\ Len(bl.last.ran) = 1
  /\ Len(bl.pre_frame_queue) = 1
  /\ bl.last.ran[1].task.id > bl.pre_frame_queue[1].id

\* the buffer range of copy c lies inside region d
Inside(c, d) ==
  /\ d.offset <= c.bufferOffset
  /\ c.bufferOffset + c.bytes <= d.offset + d.size

\* C34: for an image upload of mip_level_count levels and num_layers layers
\* from any base_mip_level, the bytes reserved (storage_size) are the bytes
\* the recorded copies step through, and the buffer range of every copy
\* lies inside the region acquired.
C34_ReservedEqualsStepped ==
  up.pc = "done"
    => /\ up.storage_size = up.offset
       /\ \A k \in DOMAIN up.copies : Inside(up.copies[k], up.desc)

\* push(i) on the freelist of p stays inside next
PushInBounds(p, i) == ~FreelistAtomic_push([p EXCEPT !.ub = FALSE], i).ub

\* the pop of acquire_index on p, after its ensure_capacity, stays inside
\* next
PopInBounds(p) ==
  ~FreelistAtomic_pop(
     [p EXCEPT !.ub = FALSE,
               !.freelist = ensure_capacity(@, Len(p.generations))],
     npos).p.ub

\* C35: in lock-free mode every push(i) and every pop of the freelist
\* accesses next[i] with i < next.size(): in every state a sequence of
\* emplace, erase and clear leads to, the push made by the erase of any
\* live handle, the pushes made by clear for every slot, and the pop made
\* by emplace are inside next.
C35_FreelistAccessesInBounds ==
  (LockFree /\ ~crashed)
    => /\ \A h \in ValidHandles(pool) : PushInBounds(pool, h.index)
       /\ \A i \in Slots(pool) : PushInBounds(pool, i)
       /\ PopInBounds(pool)
\* ------------------------------------------------- destroying resources
\* (VulkanContext::destroy for each handle type, lib/sv/src/context.cpp.)
notRc == <<poolVars, twin, stack, conc, sa, bl, up>>

\* calls made on one context in a behaviour
MaxRcCalls == 4

\* the pools of the context, by the name of the member
Kinds ==
  {"textures", "buffers", "samplers", "shader_modules", "compute_pipelines",
   "graphics_pipelines"}

\* the numbers of modules a shader holds
ModuleCounts == {1, 2}

\* the element stored for an object that is no texture; a shader holds its
\* modules
Resource(kind, modules) == [kind |-> kind, modules |-> modules]

\* the members of the context the calls below use besides those of the
\* bindless table: the other pools, the call made last with the kind of its
\* handle, and the handles created and the handles passed to destroy so far
RcMembers ==
  [buffers |-> FreshPool, samplers |-> FreshPool,
   shader_modules |-> FreshPool, compute_pipelines |-> FreshPool,
   graphics_pipelines |-> FreshPool,
   kind |-> "none", created |-> {}, destroyed |-> {},
   \* Holder objects, the handles their operations passed to destroy, in
   \* order, and the handles release returned
   holders |-> <<>>, passed |-> <<>>, released |-> {}, moves |-> 0,
   \* calls made so far
   ops |-> 0]

\* the insertion of an object that is no texture into its pool
create_resource(c, kind, modules) ==
  LET r == insert(c[kind], FALSE, Resource(kind, modules), npos)
  IN [c EXCEPT ![kind] = r.p,
               !.last = [NoBlCall EXCEPT !.op = "create", !.h = r.h]]

\* handle.valid()
\* (below, get returns nullptr exactly when is_valid fails: the test of the
\* pointer is written as the test get makes)
valid(handle) == handle.generation # invalid_generation

\* destroy(ShaderModuleHandle), from module i of the shader on
RECURSIVE defer_modules(_, _, _)
defer_modules(c, i, modules) ==
  IF i > modules THEN c
  ELSE defer_modules(defer_task(c, Task(c, "shader_module")), i + 1, modules)

destroy_ShaderModuleHandle(c, handle) ==
  IF ~valid(handle) THEN c
  ELSE LET maybe_shader == get(c.shader_modules, handle)
       IN IF ~is_valid(c.shader_modules, handle) THEN c
          ELSE defer_modules(c, 1, maybe_shader.modules)

destroy_ComputePipelineHandle(c, handle) ==
  IF ~valid(handle) THEN c
  ELSE LET maybe_pipeline == get(c.compute_pipelines, handle)
       IN IF ~is_valid(c.compute_pipelines, handle) THEN c
          ELSE defer_task(c, Task(c, "compute_pipeline"))

destroy_GraphicsPipelineHandle(c, handle) ==
  IF ~valid(handle) THEN c
  ELSE LET maybe_pipeline == get(c.graphics_pipelines, handle)
       IN IF ~is_valid(c.graphics_pipelines, handle) THEN c
          ELSE defer_task(c, Task(c, "graphics_pipeline"))

destroy_BufferHandle(c, handle) ==
  LET buf == get(c.buffers, handle)
      c1  == IF ~is_valid(c.buffers, handle) THEN c
             ELSE defer_task(c, Task(c, "buffer"))
  IN \* SCOPE_EXIT
     [c1 EXCEPT !.buffers = erase(@, FALSE, handle, npos).p]

destroy_SamplerHandle(c, handle) ==
  LET buf == get(c.samplers, handle)
      c1  == IF ~is_valid(c.samplers, handle) THEN c
             ELSE defer_task(c, Task(c, "sampler"))
  IN \* SCOPE_EXIT
     [c1 EXCEPT !.samplers = erase(@, FALSE, handle, npos).p]

\* the overload of destroy the type of the handle selects
destroy_overload(c, kind, handle) ==
  LET c0 == [c EXCEPT !.last = [NoBlCall EXCEPT !.op = "destroy",
                                                !.h = handle]]
  IN CASE kind = "textures" -> destroy(c, handle)
       [] kind = "buffers" -> destroy_BufferHandle(c0, handle)
       [] kind = "samplers" -> destroy_SamplerHandle(c0, handle)
       [] kind = "shader_modules" -> destroy_ShaderModuleHandle(c0, handle)
       [] kind = "compute_pipelines" ->
            destroy_ComputePipelineHandle(c0, handle)
       [] kind = "graphics_pipelines" ->
            destroy_GraphicsPipelineHandle(c0, handle)

\* the context after its constructor: the placeholder texture and sampler
\* exist and the table was synchronised once
RcContext ==
  [create_resource(VulkanContext @@ RcMembers, "samplers", 0)
     EXCEPT !.last = NoBlCall]

RcInit ==
  /\ PoolIdle
  /\ twin = TwinIdle
  /\ stack = StackIdle
  /\ conc = ConcIdle
  /\ sa = SaIdle /\ up = UpIdle /\ bl = BlIdle
  /\ rc = RcContext

\* a create call returned: its handle is remembered with its kind
Made(c, kind) ==
  [c EXCEPT !.kind = kind, !.ops = @ + 1,
            !.created = @ \cup {<<kind, c.last.h>>}]

\* one more texture is created
RcCreateTexture ==
  /\ rc.ops < MaxRcCalls
  /\ rc' = Made(create(rc, [usage |-> {"sampled"}, identity |-> TRUE,
                            pixels |-> FALSE]),
                "textures")
  /\ UNCHANGED notRc

\* one more object of another kind is created
RcCreate ==
  /\ rc.ops < MaxRcCalls
  /\ \E kind \in Kinds \ {"textures"} :
       \E modules \in (IF kind = "shader_modules" THEN ModuleCounts ELSE {0}) :
         rc' = Made(create_resource(rc, kind, modules), kind)
  /\ UNCHANGED notRc

\* destroy(h) with a handle some create returned, destroyed before or not,
\* or with a default-constructed handle
RcDestroy ==
  /\ rc.ops < MaxRcCalls
  /\ \E kind \in Kinds :
       \E handle \in {p[2] : p \in {q \in rc.created : q[1] = kind}}
                       \cup {DefaultHandle} :
         rc' = [destroy_overload(rc, kind, handle)
                  EXCEPT !.kind = kind, !.ops = @ + 1,
                         !.destroyed = @ \cup {<<kind, handle>>}]
  /\ UNCHANGED notRc

RcNext == RcCreateTexture \/ RcCreate \/ RcDestroy

SpecRc == RcInit /\ [][RcNext]_vars

\* the pools of a context, by kind
Pools(c) == [kind \in Kinds |-> c[kind]]

\* C36: after destroy(h) for a handle of any resource type, h is not valid
\* in its pool, and a destroy(h) of a handle that was passed to destroy
\* before adds no task to the pre-frame queue and changes no pool.
C36_DestroyInvalidatesAndRepeatsAreNoOps ==
  [][(rc'.ops = rc.ops + 1 /\ rc'.last.op = "destroy")
       => /\ ~is_valid(rc'[rc'.kind], rc'.last.h)
          /\ <<rc'.kind, rc'.last.h>> \in rc.destroyed
               => /\ rc'.pre_frame_queue = rc.pre_frame_queue
                  /\ Pools(rc') = Pools(rc)]_vars

\* the part of C36 the overloads with SCOPE_EXIT keep
C36_ErasingOverloadsKeepIt ==
  [][(rc'.ops = rc.ops + 1 /\ rc'.last.op = "destroy"
        /\ rc'.kind \in {"textures", "buffers", "samplers"})
       => /\ ~is_valid(rc'[rc'.kind], rc'.last.h)
          /\ <<rc'.kind, rc'.last.h>> \in rc.destroyed
               => /\ rc'.pre_frame_queue = rc.pre_frame_queue
                  /\ Pools(rc') = Pools(rc)]_vars

\* ------------------------------------------------------------- Holder
\* (lib/sv/include/sv/object_holder.hpp, lib/sv/src/object_pool.cpp.)

\* Holder objects of one behaviour, and the operations made on them
NHolders == 2
MaxHolderOps == 6

\* the handle types of the holders of the model
HolderKinds == {"buffers", "graphics_pipelines"}

nullptr == "nullptr"

\* Holder(ctx, handle); life tells whether the object exists
Holder(kind, ctx, handle) ==
  [life |-> "alive", kind |-> kind, context |-> ctx, handle |-> handle]

\* storage in which no Holder was constructed yet
Unborn ==
  [life |-> "unborn", kind |-> "none", context |-> nullptr,
   handle |-> DefaultHandle]

\* a move that leaves the source as it was
moved_from_kept(other) == other

\* the source of a move: std::exchange(other.handle, HandleType{}) and
\* other.context = nullptr
moved_from(other) ==
  [other EXCEPT !.handle = DefaultHandle, !.context = nullptr]

\* destruction::context_destroy; the handle passed to destroy is recorded,
\* with whether release had returned it before
context_destroy(c, kind, ctx, handle) ==
  IF ctx = nullptr THEN c
  ELSE [destroy_overload(c, kind, handle)
          EXCEPT !.passed =
                   Append(@, [kind |-> kind, handle |-> handle,
                              released |-> <<kind, handle>> \in c.released])]

\* Holder::reset of holder i
reset(c, i) ==
  LET this == c.holders[i]
      c1   == context_destroy(c, this.kind, this.context, this.handle)
  IN [c1 EXCEPT !.holders[i].context = nullptr,
                !.holders[i].handle = DefaultHandle]

\* Holder::operator=(Holder&&) of holder i from holder j
move_assign(c, i, j) ==
  IF i = j THEN c
  ELSE LET this  == c.holders[i]
           other == c.holders[j]
           c1    == context_destroy(c, this.kind, this.context, this.handle)
       IN [c1 EXCEPT !.holders[i].context = other.context,
                     !.holders[i].handle = other.handle,
                     !.holders[j] = moved_from(other)]

\* one operation on the holders was made
Op(c, name) == [c EXCEPT !.ops = @ + 1, !.last.op = name]

HolderInit ==
  /\ PoolIdle
  /\ twin = TwinIdle
  /\ stack = StackIdle
  /\ conc = ConcIdle
  /\ sa = SaIdle /\ up = UpIdle /\ bl = BlIdle
  /\ rc = [RcContext EXCEPT !.holders = [i \in 1..NHolders |-> Unborn]]

Alive(c) == {i \in 1..NHolders : c.holders[i].life = "alive"}

NotBorn(c) == {i \in 1..NHolders : c.holders[i].life = "unborn"}

\* Holder(ctx, handle) with the handle a create returned
HolderConstruct ==
  /\ rc.ops < MaxHolderOps
  /\ \E i \in NotBorn(rc), kind \in HolderKinds :
       LET c == create_resource(rc, kind, 0)
       IN rc' = Op([c EXCEPT !.holders[i] = Holder(kind, "this", c.last.h)],
                   "construct")
  /\ UNCHANGED notRc

\* Holder() and Holder::invalid()
HolderDefault ==
  /\ rc.ops < MaxHolderOps
  /\ \E i \in NotBorn(rc), kind \in HolderKinds :
       rc' = Op([rc EXCEPT !.holders[i] =
                             Holder(kind, nullptr, DefaultHandle)],
                "default")
  /\ UNCHANGED notRc

\* Holder(Holder&& other)
HolderMoveConstruct ==
  /\ rc.ops < MaxHolderOps
  /\ \E i \in NotBorn(rc), j \in Alive(rc) :
       LET other == rc.holders[j]
       IN rc' = Op([rc EXCEPT !.holders[i] =
                                Holder(other.kind, other.context,
                                       other.handle),
                              !.holders[j] = moved_from(other),
                              !.moves = @ + 1],
                   "move_construct")
  /\ UNCHANGED notRc

\* a = std::move(b), b being a itself or another holder of the same type
HolderMoveAssign ==
  /\ rc.ops < MaxHolderOps
  /\ \E i \in Alive(rc), j \in Alive(rc) :
       /\ rc.holders[i].kind = rc.holders[j].kind
       /\ rc' = Op([move_assign(rc, i, j)
                      EXCEPT !.moves = IF i = j THEN @ ELSE @ + 1],
                   "move_assign")
  /\ UNCHANGED notRc

\* a = nullptr
HolderAssignNull ==
  /\ rc.ops < MaxHolderOps
  /\ \E i \in Alive(rc) :
       rc' = Op(IF rc.holders[i].context # nullptr THEN reset(rc, i) ELSE rc,
                "assign_nullptr")
  /\ UNCHANGED notRc

HolderReset ==
  /\ rc.ops < MaxHolderOps
  /\ \E i \in Alive(rc) : rc' = Op(reset(rc, i), "reset")
  /\ UNCHANGED notRc

\* release(): the handle goes to the caller
HolderRelease ==
  /\ rc.ops < MaxHolderOps
  /\ \E i \in Alive(rc) :
       LET this == rc.holders[i]
       IN rc' = Op([rc EXCEPT !.holders[i].context = nullptr,
                              !.holders[i].handle = DefaultHandle,
                              !.released = @ \cup {<<this.kind, this.handle>>}],
                   "release")
  /\ UNCHANGED notRc

\* ~Holder()
HolderDestruct ==
  /\ rc.ops < MaxHolderOps
  /\ \E i \in Alive(rc) :
       LET this == rc.holders[i]
           c1   == context_destroy(rc, this.kind, this.context, this.handle)
       IN rc' = Op([c1 EXCEPT !.holders[i].life = "dead"], "destruct")
  /\ UNCHANGED notRc

HolderNext ==
  \/ HolderConstruct \/ HolderDefault \/ HolderMoveConstruct
  \/ HolderMoveAssign \/ HolderAssignNull \/ HolderReset \/ HolderRelease
  \/ HolderDestruct

SpecHolder == HolderInit /\ [][HolderNext]_vars

\* C40: whatever sequence of move construction, move assignment, assignment
\* of nullptr, reset, release and destruction is made on Holder objects, no
\* handle is passed to the context's destroy twice, and no handle is passed
\* after release returned it.
C40_HeldHandleDestroyedAtMostOnce ==
  /\ \A i, j \in 1..Len(rc.passed) :
       i # j => <<rc.passed[i].kind, rc.passed[i].handle>>
                  # <<rc.passed[j].kind, rc.passed[j].handle>>
  /\ \A i \in 1..Len(rc.passed) : ~rc.passed[i].released

\* holders were moved, a handle was released and is still valid in its
\* pool, another was passed to destroy, and two holders, one of them empty
\* by then, have been destructed
C40_Witness ==
  /\ rc.moves >= 1
  /\ \E r \in rc.released : is_valid(rc[r[1]], r[2])
  /\ Len(rc.passed) >= 1
  /\ Cardinality({i \in 1..NHolders : rc.holders[i].life = "dead"}) >= 2
  /\ \E i \in 1..NHolders : /\ rc.holders[i].life = "dead"
                            /\ rc.holders[i].context = nullptr

\* C37: in a buffer upload the staging buffer resolved before the loop
\* exists, and at every chunk it is the buffer the allocator holds after
\* get_next_free_offset returned, also when the allocator had no buffer at
\* the start or replaced its buffer during the upload.
C37_ChunksUseLiveStagingBuffer ==
  /\ sa.last.op = "buffer"
       => /\ ~sa.crashed
          /\ sa.pc = "chunk" => sa.stg # 0
  /\ sa.last.op = "chunk" => /\ sa.stg # 0
                             /\ sa.stg = sa.staging_buffer

\* the part of C37 about a buffer replaced during the upload, on allocators
\* that held a buffer when the upload began
C37_ReplacedDuringUpload ==
  (sa.last.op = "chunk" /\ sa.stg # 0) => sa.stg = sa.staging_buffer

\* the sum of the sizes of the regions from region i on
RECURSIVE SumSizes(_, _)
SumSizes(regions, i) ==
  IF i > Len(regions) THEN 0 ELSE regions[i].size + SumSizes(regions, i + 1)

\* the regions of the list lie in the staging buffer, no two of them share
\* a byte, and together they have the size of the buffer
Partition(s) ==
  /\ \A i \in 1..Len(s.regions) :
       /\ s.regions[i].offset >= 0 /\ s.regions[i].size >= 0
       /\ s.regions[i].offset + s.regions[i].size <= s.staging_buffer_size
  /\ \A i, j \in 1..Len(s.regions) :
       i # j => ~Overlap(s.regions[i], s.regions[j])
  /\ SumSizes(s.regions, 1) = s.staging_buffer_size

\* an upload call has returned, or a chunk of a buffer upload was recorded
Returned(s) ==
  /\ ~s.crashed
  /\ \/ s.pc = "idle" /\ s.last.op \in {"buffer", "chunk", "copy"}
     \/ s.pc = "chunk" /\ s.last.op = "chunk"

\* C38: when an upload call has returned, and after every wait_and_reset,
\* the regions of the list are pairwise disjoint, lie within the staging
\* buffer, and their sizes add up to staging_buffer_size.
C38_RegionsPartitionTheBuffer ==
  /\ Returned(sa) => Partition(sa)
  /\ (~sa.crashed /\ sa.last.op = "wait_and_reset") => Partition(sa)
  /\ ~sa.crashed => Partition(wait_and_reset(sa))

\* an upload returned with the buffer cut into three or more regions, of
\* which two are in flight
C38_Witness ==
  /\ Returned(sa) /\ sa.pc = "idle"
  /\ Len(sa.regions) >= 3
  /\ Cardinality(Pending(sa)) >= 2

\* the regions also partition the buffer while an image upload holds the
\* region it was given, when that region is counted
C38_HeldRegionCounted ==
  (~sa.crashed /\ sa.pc = "img_copy")
    => Partition([sa EXCEPT !.regions = Append(@, sa.desc)])

\* the call made last was a sync_on_frame_acquire in which write_all
\* updated the descriptor set
Wrote == Synced /\ \E k \in 1..Len(bl.last.io) : bl.last.io[k] = "update"

\* C39: when write_all updates the descriptor set, the number of entries it
\* writes to each binding, the size of the texture pool, is at most the
\* capacity the set stored in the table state was created with, which is
\* the capacity of the layout it was allocated from.
C39_WritesFitTheCurrentSet ==
  Wrote
    => LET set == bl.sets[bl.descriptors.set]
       IN /\ size(bl.textures) <= set.sampled
          /\ size(bl.textures) <= set.storage

\* the writes fit the layout created last, which the set written need not
\* have been allocated from
C39_WritesFitTheCurrentLayout ==
  Wrote
    => LET layout == bl.layouts[bl.descriptors.layout]
       IN /\ size(bl.textures) <= layout.sampled
          /\ size(bl.textures) <= layout.storage

====
